---- MODULE Spec2Model ----
(***************************************************************************)
(* Model of the exbordia retrieval / conversation backend.                 *)
(*                                                                         *)
(*   services/conversation_service.py  ConversationService                 *)
(*   ai_agents/assistant.py            process_message, thread_results     *)
(*   tools/notion_uploader.py          chunk_text, process_notion_page,    *)
(*                                     extract_categories_with_ai          *)
(*   ai_agents/pydantic_agent.py       retrieve_*                          *)
(*                                                                         *)
(* Each component has its own specification over the shared variables; the *)
(* variables a specification does not use stay at their initial value.     *)
(***************************************************************************)
EXTENDS Integers, Sequences, FiniteSets, Bags, TLC

(***************************************************************************)
(* Bounds of the model.                                                    *)
(***************************************************************************)
MaxTurns == 4
NumCallers == 2
MaxMsgs == 3
MaxTextLen == 6
MaxChunkSize == 5
\* chunk_text is called by process_notion_page with its default chunk_size
\* (5000); the model scales it to the length of the page texts below.
IngestChunkSize == 2
MaxRuns == 3
MaxPageChunks == 2
MaxLabels == 2
MaxCtxTurns == 3
MaxLimit == 2
MaxAnaTurns == 2
MaxTasks == 2
MaxMsgTurns == 2
MaxIdentTurns == 2

None == "None"

\* a dict is a function from keys to values; {} is the empty function
EmptyDict == <<>>

VARIABLES
  \* ---- ConversationService and its store -------------------------------
  telegram_users,       \* table telegram_users: telegram_id -> auth_user_id
  user_conversations,   \* table user_conversations, rows in insertion order
  user_id_cache,        \* ConversationService._user_id_cache
  save_result,          \* value returned by the last completed save_conversation
  save_call,            \* arguments of the last completed save_conversation
  \* ---- assistant.process_message ---------------------------------------
  thread_results,       \* module-level dict thread_results
  last_agent,           \* per stored result: its last_agent
  pm_pc,                \* per caller: position inside process_message
  pm_local,             \* per caller: locals of process_message
  pm_sent,              \* number of messages handed to process_message so far
  pm_done,              \* calls whose agent run succeeded (history)
  \* ---- notion_uploader.chunk_text ---------------------------------------
  ct_text,              \* argument text
  ct_size,              \* argument chunk_size
  ct_start,             \* local start
  ct_chunks,            \* local chunks
  ct_spans,             \* the (start, end) each appended chunk was cut from
  ct_iters,             \* number of iterations of the while loop so far
  ct_pc,                \* "loop" while inside the while loop, then "done"
  \* ---- notion_uploader.process_notion_page ------------------------------
  site_pages,           \* table site_pages, a bag of rows
  ing_last,             \* the last process_notion_page run that ended (history)
  ing_run,              \* per run in flight: position and locals of process_notion_page
  ing_overlapped,       \* a run has started while another run was in flight (history)
  ing_started,          \* how many runs have started, counted up to MaxRuns
  \* ---- notion_uploader.extract_categories_with_ai -----------------------
  cat_response,         \* what the classifier call yields
  cat_result,           \* the returned list
  cat_pc,               \* "call" before the function ran, then "done"
  cat_final,            \* process_chunk: the declared category and the stored list
  \* ---- pydantic_agent retrieval tools -----------------------------------
  rt_docs,              \* the rows of site_pages the searches run against
  rt_call,              \* the last retrieval call and what its searches yielded
  rt_ret,               \* the value the last retrieval call returned
  \* ---- ConversationService.get_conversation_context --------------------
  ctx_call,             \* the last get_conversation_context call
  ctx_ret,              \* the value it returned
  \* ---- ConversationService._get_auth_user_id ---------------------------
  id_last,              \* the last direct call: argument, outcome, store queried
  \* ---- ConversationService.analyze_and_update_conversation -------------
  ana_tasks,            \* the calls made so far, each with its position and locals
  \* ---- POST /message and GeneralWorkflow.process -----------------------
  msg_pc,               \* per request: "idle", or "completing" while the completion is awaited
  msg_local,            \* per request in flight: the locals of the handler
  msg_resp,             \* the last request answered and what it was answered with
  \* ---- POST /ask (crawl4AI-agent/rg_crawlAI_agent/api.py) ---------------
  ask_store,            \* columns is_activated of telegram_users, table subscriptions
  ask_last,             \* the last /ask request that was answered (history)
  ask_run               \* per request in flight: position and locals of ask_question

convVars == <<telegram_users, user_conversations, user_id_cache, save_result, save_call>>
threadVars == <<thread_results, last_agent, pm_pc, pm_local, pm_sent, pm_done>>
chunkVars == <<ct_text, ct_size, ct_start, ct_chunks, ct_spans, ct_iters, ct_pc>>
ingestVars == <<site_pages, ing_last, ing_run, ing_overlapped, ing_started>>
catVars == <<cat_response, cat_result, cat_pc, cat_final>>
retrVars == <<rt_docs, rt_call, rt_ret>>
ctxVars == <<ctx_call, ctx_ret>>
identVars == <<id_last>>
anaVars == <<ana_tasks>>
msgVars == <<msg_pc, msg_local, msg_resp>>
askVars == <<ask_store, ask_last, ask_run>>
vars == <<convVars, threadVars, chunkVars, ingestVars, catVars, retrVars, ctxVars, identVars, anaVars, msgVars, askVars>>

otherThanConv == <<threadVars, chunkVars, ingestVars, catVars, retrVars, ctxVars, identVars, anaVars, msgVars, askVars>>
otherThanThread == <<convVars, chunkVars, ingestVars, catVars, retrVars, ctxVars, identVars, anaVars, msgVars, askVars>>
otherThanChunk == <<convVars, threadVars, ingestVars, catVars, retrVars, ctxVars, identVars, anaVars, msgVars, askVars>>
otherThanIngest == <<convVars, threadVars, chunkVars, catVars, retrVars, ctxVars, identVars, anaVars, msgVars, askVars>>
otherThanCat == <<convVars, threadVars, chunkVars, ingestVars, retrVars, ctxVars, identVars, anaVars, msgVars, askVars>>
otherThanRetr == <<convVars, threadVars, chunkVars, ingestVars, catVars, ctxVars, identVars, anaVars, msgVars, askVars>>
otherThanConvCtx == <<threadVars, chunkVars, ingestVars, catVars, retrVars, identVars, anaVars, msgVars, askVars>>
otherThanConvIdent == <<threadVars, chunkVars, ingestVars, catVars, retrVars, ctxVars, anaVars, msgVars, askVars>>
otherThanConvAna == <<threadVars, chunkVars, ingestVars, catVars, retrVars, ctxVars, identVars, msgVars, askVars>>
otherThanConvAnaMsg == <<threadVars, chunkVars, ingestVars, catVars, retrVars, ctxVars, identVars, askVars>>
otherThanConvAsk == <<threadVars, chunkVars, ingestVars, catVars, retrVars, ctxVars, identVars, anaVars, msgVars>>

Callers == 1..NumCallers

(***************************************************************************)
(* Generic helpers.                                                        *)
(***************************************************************************)
Range(s) == {s[i] : i \in DOMAIN s}

Min(a, b) == IF a <= b THEN a ELSE b
Max(a, b) == IF a >= b THEN a ELSE b

RECURSIVE SeqMax(_)
SeqMax(s) == IF Len(s) = 1 THEN s[1]
             ELSE LET m == SeqMax(Tail(s)) IN IF s[1] >= m THEN s[1] ELSE m

(***************************************************************************)
(* The identity table telegram_users: telegram_id -> auth_user_id, as it   *)
(* stands when the service starts.  Id 3 has no row.                       *)
(***************************************************************************)
TelegramIds == {1, 2, 3}
SessionIds == {7, 8}
InitialUsers == [t \in {1, 2} |-> IF t = 1 THEN "u1" ELSE "u2"]
AuthUsers == {"u1", "u2"}

(***************************************************************************)
(* ConversationService                                                     *)
(***************************************************************************)
NoSave == [telegram_id |-> 0, session_id |-> 0]

\* .eq("user_id", ..).eq("session_id", ..) on user_conversations
SessionRows(rows, uid, sid) ==
  SelectSeq(rows, LAMBDA r : r.user_id = uid /\ r.session_id = sid)

\* .order("message_sequence", desc=True).limit(1): the rows of the answer
sequence_result(rows, uid, sid) ==
  LET sel == SessionRows(rows, uid, sid) IN
  IF sel = <<>> THEN <<>>
  ELSE LET m == SeqMax([i \in DOMAIN sel |-> sel[i].message_sequence])
       IN <<[message_sequence |-> m]>>

next_sequence_mut(rows, uid, sid) ==
  LET sel == SelectSeq(rows, LAMBDA r : r.user_id = uid) IN
  IF sel = <<>> THEN 1
  ELSE SeqMax([i \in DOMAIN sel |-> sel[i].message_sequence]) + 1

\* the highest stored message_sequence taken without the increment
next_sequence_same(rows, uid, sid) ==
  LET data == sequence_result(rows, uid, sid) IN
  IF data = <<>> THEN 1 ELSE data[1].message_sequence

\* next_sequence = 1, or the highest stored message_sequence + 1
next_sequence(rows, uid, sid) ==
  LET data == sequence_result(rows, uid, sid) IN
  IF data = <<>> THEN 1 ELSE data[1].message_sequence + 1

\* A text is "" (written <<>>) or the text of the n-th request, <<kind, n>>.
NoText == <<>>
Text(kind, n) == <<kind, n>>

\* the row handed to insert(), with the id the store gives it; the
\* enrichment columns sentiment, summary and topics are not set
NewRow(id, uid, sid, seq, q, a) ==
  [id |-> id, user_id |-> uid, session_id |-> sid, message_sequence |-> seq,
   question |-> q, answer |-> a,
   sentiment |-> None, summary |-> None, topics |-> None, metadata |-> <<>>]

\* the lookup without the test for an empty answer of the store
get_auth_user_id_mut(users, cache, tid) ==
  IF tid \in DOMAIN cache THEN <<TRUE, cache[tid], cache, FALSE>>
  ELSE LET auth_user_id == IF tid \in DOMAIN users THEN users[tid] ELSE None IN
       <<TRUE, auth_user_id,
         [t \in DOMAIN cache \cup {tid} |-> IF t = tid THEN auth_user_id ELSE cache[t]],
         TRUE>>

\* the lookup that asks the store every time
get_auth_user_id_requery(users, cache, tid) ==
  IF tid \notin DOMAIN users THEN <<FALSE, None, cache, TRUE>>
  ELSE <<TRUE, users[tid],
         [t \in DOMAIN cache \cup {tid} |-> IF t = tid THEN users[tid] ELSE cache[t]],
         TRUE>>

\* _get_auth_user_id: <<found, auth_user_id, cache afterwards, store queried>>
get_auth_user_id(users, cache, tid) ==
  IF tid \in DOMAIN cache THEN <<TRUE, cache[tid], cache, FALSE>>
  ELSE IF tid \notin DOMAIN users THEN <<FALSE, None, cache, TRUE>>
  ELSE <<TRUE, users[tid],
         [t \in DOMAIN cache \cup {tid} |-> IF t = tid THEN users[tid] ELSE cache[t]],
         TRUE>>

ConvInit ==
  /\ telegram_users = InitialUsers
  /\ user_conversations = <<>>
  /\ user_id_cache = <<>>
  /\ save_result = None
  /\ save_call = NoSave

ThreadInit ==
  /\ thread_results = <<>>
  /\ last_agent = <<>>
  /\ pm_pc = [p \in Callers |-> "idle"]
  /\ pm_local = [p \in Callers |-> <<>>]
  /\ pm_sent = 0
  /\ pm_done = {}

ChunkIdle ==
  /\ ct_text = <<>>
  /\ ct_size = 1
  /\ ct_start = 0
  /\ ct_chunks = <<>>
  /\ ct_spans = <<>>
  /\ ct_iters = 0
  /\ ct_pc = "done"

NoRun == [page |-> None, url |-> <<>>, content |-> <<>>, outcome |-> None,
          clean |-> FALSE]

\* the uploader runs that can be in flight together
IngestRuns == {1, 2}

\* a run that is not in flight
NoIngest == [pc |-> "idle", page |-> None, content |-> <<>>, next |-> 0,
             before |-> EmptyBag, replaced |-> FALSE, clean |-> TRUE]

IngestInit ==
  /\ site_pages = EmptyBag
  /\ ing_last = NoRun
  /\ ing_run = [r \in IngestRuns |-> NoIngest]
  /\ ing_overlapped = FALSE
  /\ ing_started = 0

NoResponse == [kind |-> None, key |-> None, categories |-> <<>>]

NoFinal == [category |-> None, final_categories |-> <<>>]

CatIdle ==
  /\ cat_response = NoResponse
  /\ cat_result = <<>>
  /\ cat_pc = "done"
  /\ cat_final = NoFinal

NoCall == [fn |-> None, categories |-> [kind |-> "list", items |-> <<>>],
           primary_raised |-> FALSE, searched |-> FALSE, search_rows |-> <<>>]
NoReturn == [kind |-> None, chunks |-> <<>>, named |-> <<>>]

RetrIdle ==
  /\ rt_docs = {}
  /\ rt_call = NoCall
  /\ rt_ret = NoReturn

NoContextCall == [telegram_id |-> 0, session_id |-> 0, limit |-> 0, fail |-> None]
NoContext == [messages |-> <<>>, has_history |-> FALSE, metadata |-> None]

CtxIdle ==
  /\ ctx_call = NoContextCall
  /\ ctx_ret = NoContext

NoResolution == [telegram_id |-> 0, found |-> FALSE, value |-> None, queried |-> FALSE]

IdentIdle == id_last = NoResolution

AnaIdle == ana_tasks = <<>>

\* the requests POST /message and GeneralWorkflow.process can have in flight
MsgRequests == {1, 2}

NoRequest == [handler |-> None, telegram_id |-> 0, session_id |-> 0, query |-> NoText]
NoAnswer == [handler |-> None, failed |-> FALSE, raised |-> FALSE, status |-> 0, response |-> NoText,
             detail |-> None, task |-> 0]

MsgIdle ==
  /\ msg_pc = [p \in MsgRequests |-> "idle"]
  /\ msg_local = [p \in MsgRequests |-> NoRequest]
  /\ msg_resp = NoAnswer

\* no /ask request was answered yet
NoAsk == [telegram_id |-> 0, gate |-> None, agent_run |-> FALSE,
          inserted |-> FALSE, response |-> NoText]
NoAskStore == [is_activated |-> <<>>, subscriptions |-> <<>>]

\* the /ask requests that can be in flight together
AskRequests == {1, 2}

\* a request slot with no request in flight
NoAskRun == [pc |-> "idle", telegram_id |-> 0, session_id |-> 0,
             auth_user_id |-> None, query |-> NoText]

AskIdle ==
  /\ ask_store = NoAskStore
  /\ ask_last = NoAsk
  /\ ask_run = [p \in AskRequests |-> NoAskRun]

\* lines 93-128: one call of save_conversation.  The call holds no
\* suspension point: _get_auth_user_id awaits nothing and the store
\* client's execute() is synchronous, so inside the event loop the lookup,
\* the select and the insert run without another coroutine in between.
\* fail names the store call that raises: "lookup", "select", "insert" or "none"
save_conversation(tid, sid, q, a, fail) ==
  /\ LET res == get_auth_user_id(telegram_users, user_id_cache, tid)
         lookupRaises == fail = "lookup" /\ tid \notin DOMAIN user_id_cache
     IN
     IF lookupRaises \/ ~res[1]
     THEN /\ save_result' = EmptyDict
          /\ UNCHANGED <<user_conversations, user_id_cache>>
     ELSE /\ user_id_cache' = res[3]
          /\ IF fail \in {"select", "insert"}
             THEN /\ save_result' = EmptyDict
                  /\ UNCHANGED user_conversations
             ELSE LET row == NewRow(Len(user_conversations) + 1, res[2], sid,
                                    next_sequence(user_conversations, res[2], sid),
                                    q, a)
                  IN /\ user_conversations' = Append(user_conversations, row)
                     /\ save_result' = row
  /\ save_call' = [telegram_id |-> tid, session_id |-> sid]
  /\ UNCHANGED <<telegram_users>>

SaveFaults == {"none", "lookup", "select", "insert"}

\* save_conversation called when no other call runs, with at most turns
\* rows in the table
SaveUpTo(turns) ==
  /\ Len(user_conversations) < turns
  /\ \E tid \in TelegramIds, sid \in SessionIds, fail \in SaveFaults :
       LET n == Len(user_conversations) + 1 IN
       save_conversation(tid, sid, Text("q", n), Text("a", n), fail)
  /\ UNCHANGED otherThanConv

SaveSequentially == SaveUpTo(MaxTurns)

(***************************************************************************)
(* Claims about the conversation store.                                    *)
(***************************************************************************)

\* C1: under any interleaving of concurrent save_conversation calls for the
\* same (user, session), no two persisted turns carry the same
\* message_sequence.  The calls are made by request handlers that are in
\* flight together; each call runs when its handler is resumed.
C1_UniqueSequenceConcurrent ==
  \A i, j \in DOMAIN user_conversations :
    ( /\ i # j
      /\ user_conversations[i].user_id = user_conversations[j].user_id
      /\ user_conversations[i].session_id = user_conversations[j].session_id )
    => user_conversations[i].message_sequence # user_conversations[j].message_sequence

\* C1 witness: two requests for one (user, session) without turns were in
\* flight together, the request received second saved first, and the two
\* turns carry message_sequence 1 and 2.
C1_Witness ==
  /\ Len(user_conversations) = 2
  /\ user_conversations[1].user_id = user_conversations[2].user_id
  /\ user_conversations[1].session_id = user_conversations[2].session_id
  /\ user_conversations[1].question = Text("q", 2)
  /\ user_conversations[2].question = Text("q", 1)
  /\ user_conversations[1].message_sequence = 1
  /\ user_conversations[2].message_sequence = 2

\* C2: when save_conversation calls run one after another, the rows of every
\* (user, session), taken in call order, carry message_sequence 1, 2, ..., N,
\* whatever was saved to other sessions or for other users in between.
C2_SequentialSequences ==
  \A uid \in AuthUsers, sid \in SessionIds :
    LET sel == SessionRows(user_conversations, uid, sid) IN
    \A i \in DOMAIN sel : sel[i].message_sequence = i

\* C2 witness: a session received its second turn after a turn of another
\* session or user had been saved in between.
C2_Witness ==
  \E i, j, k \in DOMAIN user_conversations :
    /\ i < j /\ j < k
    /\ user_conversations[i].user_id = user_conversations[k].user_id
    /\ user_conversations[i].session_id = user_conversations[k].session_id
    /\ \/ user_conversations[j].user_id # user_conversations[i].user_id
       \/ user_conversations[j].session_id # user_conversations[i].session_id
    /\ user_conversations[i].message_sequence = 1
    /\ user_conversations[k].message_sequence = 2

InitSeq == ConvInit /\ ThreadInit /\ ChunkIdle /\ IngestInit /\ CatIdle /\ RetrIdle /\ CtxIdle /\ IdentIdle /\ AnaIdle /\ MsgIdle /\ AskIdle
NextSeq == SaveSequentially
SpecSeq == InitSeq /\ [][NextSeq]_vars

(***************************************************************************)
(* ConversationService._get_auth_user_id against a table telegram_users    *)
(* that changes while the service object lives.                            *)
(***************************************************************************)
\* lines 34-55: one call of _get_auth_user_id(telegram_id)
ResolveUser(tid) ==
  /\ LET res == get_auth_user_id(telegram_users, user_id_cache, tid) IN
     /\ user_id_cache' = res[3]
     /\ id_last' = [telegram_id |-> tid, found |-> res[1], value |-> res[2],
                    queried |-> res[4]]
  /\ UNCHANGED <<telegram_users, user_conversations, save_result, save_call, otherThanConvIdent>>

\* the row of telegram_id is written with another auth_user_id, or created
SetUserRow(tid, uid) ==
  /\ telegram_users' = [t \in DOMAIN telegram_users \cup {tid} |->
                          IF t = tid THEN uid ELSE telegram_users[t]]
  /\ UNCHANGED <<user_conversations, user_id_cache, save_result, save_call, id_last, otherThanConvIdent>>

\* the row of telegram_id is deleted
DeleteUserRow(tid) ==
  /\ tid \in DOMAIN telegram_users
  /\ telegram_users' = [t \in DOMAIN telegram_users \ {tid} |-> telegram_users[t]]
  /\ UNCHANGED <<user_conversations, user_id_cache, save_result, save_call, id_last, otherThanConvIdent>>

InitIdent == ConvInit /\ ThreadInit /\ ChunkIdle /\ IngestInit /\ CatIdle /\ RetrIdle /\ CtxIdle /\ IdentIdle /\ AnaIdle /\ MsgIdle /\ AskIdle
NextIdent ==
  \/ \E tid \in TelegramIds : ResolveUser(tid)
  \/ \E tid \in TelegramIds, uid \in AuthUsers : SetUserRow(tid, uid)
  \/ \E tid \in TelegramIds : DeleteUserRow(tid)
SpecIdent == InitIdent /\ [][NextIdent]_vars

\* save_conversation called one after another while the table
\* telegram_users changes
NextSaveIdent ==
  \/ SaveUpTo(MaxIdentTurns)
  \/ \E tid \in TelegramIds, uid \in AuthUsers : SetUserRow(tid, uid)
  \/ \E tid \in TelegramIds : DeleteUserRow(tid)
SpecSaveIdent == InitIdent /\ [][NextSaveIdent]_vars

\* C15: save_conversation for a telegram_id without a row in telegram_users
\* inserts no turn, returns the empty result and adds nothing to the
\* identity cache.  (A step that leaves telegram_users as it is and has
\* a call recorded in save_call is a call of save_conversation.)
C15_UnknownUserSavesNothing ==
  [][(/\ telegram_users' = telegram_users
      /\ save_call' # NoSave
      /\ save_call'.telegram_id \notin DOMAIN telegram_users)
       => /\ user_conversations' = user_conversations
          /\ user_id_cache' = user_id_cache
          /\ save_result' = EmptyDict]_vars

\* C15 as amended: save_conversation for a telegram_id that has neither a
\* row in telegram_users nor an entry in the identity cache inserts no turn,
\* returns the empty result and adds nothing to the identity cache.
C15_UncachedUnknownUserSavesNothing ==
  [][(/\ telegram_users' = telegram_users
      /\ save_call' # NoSave
      /\ save_call'.telegram_id \notin DOMAIN telegram_users
      /\ save_call'.telegram_id \notin DOMAIN user_id_cache)
       => /\ user_conversations' = user_conversations
          /\ user_id_cache' = user_id_cache
          /\ save_result' = EmptyDict]_vars

\* C15 witness: the row of telegram_id 2 was deleted before the id was ever
\* resolved and a save for it returned the empty result, while telegram_id 1
\* is cached, has lost its row and has turns saved.
C15_Witness ==
  /\ save_call.telegram_id = 2
  /\ 2 \notin DOMAIN telegram_users
  /\ 2 \notin DOMAIN user_id_cache
  /\ save_result = EmptyDict
  /\ 1 \in DOMAIN user_id_cache
  /\ 1 \notin DOMAIN telegram_users
  /\ Len(user_conversations) >= 1

\* C16: once a telegram_id is resolved, its identity-cache entry is never
\* changed or removed, and every later resolution of it returns the cached
\* value without a query to the store, whatever the store's mapping has
\* become.
C16_CacheEntryIsPermanent ==
  [][/\ \A tid \in DOMAIN user_id_cache :
          /\ tid \in DOMAIN user_id_cache'
          /\ user_id_cache'[tid] = user_id_cache[tid]
     /\ (id_last' # id_last /\ id_last'.telegram_id \in DOMAIN user_id_cache)
          => /\ id_last'.found
             /\ id_last'.value = user_id_cache[id_last'.telegram_id]
             /\ ~id_last'.queried]_vars

\* C16 witness: telegram_id 1 was resolved to u1, its row was then changed
\* or deleted, and a later resolution still returned u1 without a query.
C16_Witness ==
  /\ id_last = [telegram_id |-> 1, found |-> TRUE, value |-> "u1", queried |-> FALSE]
  /\ 1 \in DOMAIN user_id_cache
  /\ user_id_cache[1] = "u1"
  /\ 1 \in DOMAIN telegram_users => telegram_users[1] # "u1"

(***************************************************************************)
(* ConversationService.get_conversation_context                            *)
(***************************************************************************)
\* rows ordered by message_sequence, highest first; rows with equal
\* message_sequence stay in store order
RECURSIVE OrderDesc(_)
OrderDesc(rows) ==
  IF rows = <<>> THEN <<>>
  ELSE LET rest == OrderDesc(SubSeq(rows, 1, Len(rows) - 1))
           r == rows[Len(rows)]
           before == SelectSeq(rest, LAMBDA x : x.message_sequence >= r.message_sequence)
           after == SelectSeq(rest, LAMBDA x : x.message_sequence < r.message_sequence)
       IN before \o <<r>> \o after

\* the query with the oldest rows first
recent_rows_mut(rows, uid, sid, limit) ==
  LET sel == SessionRows(rows, uid, sid) IN SubSeq(sel, 1, Min(limit, Len(sel)))

\* lines 154-160: .eq(user_id).eq(session_id).order(desc=True).limit(limit)
recent_rows(rows, uid, sid, limit) ==
  LET sel == OrderDesc(SessionRows(rows, uid, sid)) IN SubSeq(sel, 1, Min(limit, Len(sel)))

\* lines 149-166: <<conversations, cache afterwards>>; fail names the store
\* call that raises
get_recent_conversations(users, cache, rows, tid, sid, limit, fail) ==
  LET res == get_auth_user_id(users, cache, tid)
      lookupRaises == fail = "lookup" /\ tid \notin DOMAIN cache
  IN IF lookupRaises \/ ~res[1] THEN <<<<>>, cache>>
     ELSE IF fail = "select" THEN <<<<>>, res[3]>>
     ELSE <<recent_rows(rows, res[2], sid, limit), res[3]>>

\* lines 248-251: sorted(conversations, key=message_sequence), a stable sort
RECURSIVE sorted_conversations(_)
sorted_conversations(convs) ==
  IF convs = <<>> THEN <<>>
  ELSE LET rest == sorted_conversations(SubSeq(convs, 1, Len(convs) - 1))
           c == convs[Len(convs)]
           before == SelectSeq(rest, LAMBDA x : x.message_sequence <= c.message_sequence)
           after == SelectSeq(rest, LAMBDA x : x.message_sequence > c.message_sequence)
       IN before \o <<c>> \o after

\* lines 255-268: the messages of one conversation
conversation_messages(conv) ==
  (IF conv.question # NoText THEN <<[role |-> "user", content |-> conv.question]>> ELSE <<>>)
  \o
  (IF conv.answer # NoText THEN <<[role |-> "assistant", content |-> conv.answer]>> ELSE <<>>)

\* lines 237-270
RECURSIVE flatten_messages(_)
flatten_messages(convs) ==
  IF convs = <<>> THEN <<>>
  ELSE conversation_messages(Head(convs)) \o flatten_messages(Tail(convs))

format_conversation_for_context(conversations) ==
  flatten_messages(sorted_conversations(conversations))

\* dict.update
dict_update(d, e) ==
  [k \in DOMAIN d \cup DOMAIN e |-> IF k \in DOMAIN e THEN e[k] ELSE d[k]]

\* lines 226-229: the metadata of the conversations merged in list order
RECURSIVE merged_metadata(_)
merged_metadata(convs) ==
  IF convs = <<>> THEN <<>>
  ELSE dict_update(merged_metadata(SubSeq(convs, 1, Len(convs) - 1)),
                   convs[Len(convs)].metadata)

\* lines 209-235: the returned dict
conversation_context(conversations) ==
  IF conversations = <<>> THEN NoContext
  ELSE LET formatted_messages == format_conversation_for_context(conversations) IN
       [messages |-> formatted_messages,
        has_history |-> Len(formatted_messages) > 0,
        metadata |-> merged_metadata(conversations)]

ContextFaults == {"none", "lookup", "select"}

get_conversation_context(tid, sid, limit, fail) ==
  /\ LET got == get_recent_conversations(telegram_users, user_id_cache,
                                          user_conversations, tid, sid, limit, fail)
     IN /\ user_id_cache' = got[2]
        /\ ctx_ret' = conversation_context(got[1])
  /\ ctx_call' = [telegram_id |-> tid, session_id |-> sid, limit |-> limit,
                  fail |-> fail]
  /\ UNCHANGED <<telegram_users, user_conversations, save_result, save_call, otherThanConvCtx>>

\* The store is filled first and read afterwards.
GetContext ==
  /\ ctx_call = NoContextCall
  /\ \E tid \in TelegramIds, sid \in SessionIds, limit \in 0..MaxLimit,
        fail \in ContextFaults : get_conversation_context(tid, sid, limit, fail)

\* the question and the answer of the n-th turn; either may be the empty string
TurnTexts(n) == {<<Text("q", n), Text("a", n)>>, <<NoText, Text("a", n)>>,
                 <<Text("q", n), NoText>>}

\* a turn of a known user is saved
SaveTurn ==
  /\ Len(user_conversations) < MaxCtxTurns
  /\ ctx_call = NoContextCall
  /\ \E tid \in DOMAIN telegram_users, sid \in SessionIds :
       \E qa \in TurnTexts(Len(user_conversations) + 1) :
         save_conversation(tid, sid, qa[1], qa[2], "none")
  /\ UNCHANGED otherThanConv

InitCtx == ConvInit /\ ThreadInit /\ ChunkIdle /\ IngestInit /\ CatIdle /\ RetrIdle /\ CtxIdle /\ IdentIdle /\ AnaIdle /\ MsgIdle /\ AskIdle
NextCtx == SaveTurn \/ GetContext
SpecCtx == InitCtx /\ [][NextCtx]_vars

\* the turns of the (user, session) the last context call named, by row index
CtxTurns ==
  IF ctx_call.telegram_id \notin DOMAIN telegram_users THEN {}
  ELSE {i \in DOMAIN user_conversations :
          /\ user_conversations[i].user_id = telegram_users[ctx_call.telegram_id]
          /\ user_conversations[i].session_id = ctx_call.session_id}

\* the min(limit, n) turns with the highest message_sequence
CtxNewest ==
  {i \in CtxTurns :
     Cardinality({j \in CtxTurns : user_conversations[j].message_sequence
                                     > user_conversations[i].message_sequence})
       < Min(ctx_call.limit, Cardinality(CtxTurns))}

\* the message of role in the returned list that holds text, if any
MessageAt(role, text) ==
  {k \in DOMAIN ctx_ret.messages :
     ctx_ret.messages[k] = [role |-> role, content |-> text]}

\* C14: get_conversation_context(user, session, limit) returns the messages
\* of exactly the min(limit, n) turns of that (user, session) with the
\* highest message_sequence: every returned message is the question or the
\* answer of one of them, every text of theirs is returned once, turns come
\* oldest first and a turn's user message comes before its assistant message.
C14_ContextOfNewestTurns ==
  ctx_call.fail = "none" =>
    /\ \A k \in DOMAIN ctx_ret.messages :
         \E i \in CtxNewest :
           \/ ctx_ret.messages[k] = [role |-> "user",
                                     content |-> user_conversations[i].question]
           \/ ctx_ret.messages[k] = [role |-> "assistant",
                                     content |-> user_conversations[i].answer]
    /\ \A i \in CtxNewest :
         LET row == user_conversations[i] IN
         /\ row.question # NoText => Cardinality(MessageAt("user", row.question)) = 1
         /\ row.answer # NoText => Cardinality(MessageAt("assistant", row.answer)) = 1
         /\ \A k \in MessageAt("user", row.question), l \in MessageAt("assistant", row.answer) :
              k < l
         /\ \A j \in CtxNewest :
              user_conversations[i].message_sequence < user_conversations[j].message_sequence
                => \A k \in MessageAt("user", row.question) \cup MessageAt("assistant", row.answer),
                      l \in MessageAt("user", user_conversations[j].question)
                            \cup MessageAt("assistant", user_conversations[j].answer) :
                        k < l

\* C14 witness: a session holds more turns than the limit of 2, and the call
\* returned the four messages of its two newest turns.
C14_Witness ==
  /\ ctx_call.fail = "none"
  /\ ctx_call.limit = 2
  /\ Cardinality(CtxTurns) > 2
  /\ Len(ctx_ret.messages) = 4

\* C27: get_conversation_context emits exactly two messages for every turn
\* get_recent_conversations returned, a user message followed by an
\* assistant message: the list has twice as many messages as turns and the
\* roles alternate.
C27_TwoMessagesPerTurn ==
  ctx_call.fail = "none" =>
    /\ Len(ctx_ret.messages) = 2 * Cardinality(CtxNewest)
    /\ \A k \in DOMAIN ctx_ret.messages :
         ctx_ret.messages[k].role = IF k % 2 = 1 THEN "user" ELSE "assistant"

(***************************************************************************)
(* ConversationService.analyze_and_update_conversation.  A call reads the  *)
(* turn, awaits the analysis LLM and then writes the turn back: the read   *)
(* and the write are separate steps, and calls run as background tasks     *)
(* beside each other and beside the request handlers.                      *)
(***************************************************************************)
dict_get(d, k, default) == IF k \in DOMAIN d THEN d[k] ELSE default

AnalysisKeys == {"sentiment", "summary", "topics", "entities", "intent"}

\* a JSON value of the analysis is the token of its text: the value the LLM
\* gave for key k is k, the defaults of analysis.get are "" and "[]"
EmptyString == ""
EmptyList == "[]"

\* what the analysis LLM call yields: the call raises, its content is not
\* JSON, or its content parses to {}, to a list, to a dict with every key
\* asked for, or to a dict with only one of them
AnalysisOutcomes == {"raises", "unparseable", "empty", "list", "full", "partial"}

\* lines 349-387: _analyze_with_llm returns the parsed content, or {}
analyze_with_llm(out) ==
  IF out \in {"raises", "unparseable", "empty"} THEN [kind |-> "dict", value |-> EmptyDict]
  ELSE IF out = "list" THEN [kind |-> "list", value |-> <<"sentiment">>]
  ELSE IF out = "full"
    THEN [kind |-> "dict",
          value |-> [k \in AnalysisKeys |-> k]]
  ELSE [kind |-> "dict", value |-> [k \in {"sentiment"} |-> k]]

\* the update written although the analysis is empty
analysis_updates_mut(conversation, analysis, now) ==
  IF analysis.kind # "dict" THEN EmptyDict
  ELSE [sentiment |-> dict_get(analysis.value, "sentiment", EmptyString),
        summary |-> dict_get(analysis.value, "summary", EmptyString),
        topics |-> dict_get(analysis.value, "topics", EmptyList),
        metadata |-> dict_update(conversation.metadata,
                       [k \in {"analysis_timestamp", "entities", "intent"} |->
                          IF k = "analysis_timestamp" THEN now
                          ELSE IF k = "entities" THEN dict_get(analysis.value, k, EmptyList)
                          ELSE dict_get(analysis.value, k, EmptyString)])]

\* the update whose metadata holds the three analysis keys only
analysis_updates_fresh(conversation, analysis, now) ==
  IF analysis.value = <<>> \/ analysis.kind # "dict" THEN EmptyDict
  ELSE [sentiment |-> dict_get(analysis.value, "sentiment", EmptyString),
        summary |-> dict_get(analysis.value, "summary", EmptyString),
        topics |-> dict_get(analysis.value, "topics", EmptyList),
        metadata |-> [k \in {"analysis_timestamp", "entities", "intent"} |->
                        IF k = "analysis_timestamp" THEN now
                        ELSE IF k = "entities" THEN dict_get(analysis.value, k, EmptyList)
                        ELSE dict_get(analysis.value, k, EmptyString)]]

\* lines 306-317: the updates dict, or {} when there is no update: the
\* analysis is falsy (line 306), or it is a list and analysis.get raises
analysis_updates(conversation, analysis, now) ==
  IF analysis.value = <<>> \/ analysis.kind # "dict" THEN EmptyDict
  ELSE [sentiment |-> dict_get(analysis.value, "sentiment", EmptyString),
        summary |-> dict_get(analysis.value, "summary", EmptyString),
        topics |-> dict_get(analysis.value, "topics", EmptyList),
        metadata |-> dict_update(conversation.metadata,
                       [k \in {"analysis_timestamp", "entities", "intent"} |->
                          IF k = "analysis_timestamp" THEN now
                          ELSE IF k = "entities" THEN dict_get(analysis.value, k, EmptyList)
                          ELSE dict_get(analysis.value, k, EmptyString)])]

\* lines 320-323: .update(updates).eq("id", conversation_id)
update_rows(rows, id, updates) ==
  [i \in DOMAIN rows |->
     IF rows[i].id = id
     THEN [rows[i] EXCEPT !.sentiment = updates.sentiment, !.summary = updates.summary,
                          !.topics = updates.topics, !.metadata = updates.metadata]
     ELSE rows[i]]

\* lines 181-191: get_conversation_by_id
get_conversation_by_id(rows, id, fail) ==
  LET hits == SelectSeq(rows, LAMBDA r : r.id = id) IN
  IF fail \/ hits = <<>> THEN EmptyDict ELSE hits[1]

NewTask(id) == [conversation_id |-> id, pc |-> "created", conversation |-> EmptyDict,
                outcome |-> None, ret |-> None]

\* the call awaited to its end instead of being handed to the event loop
create_task_awaited(tasks, id) ==
  Append(tasks, [NewTask(id) EXCEPT !.pc = "done", !.ret = "conversation"])

\* asyncio.create_task(analyze_and_update_conversation(conversation_id=id))
create_task(tasks, id) == Append(tasks, NewTask(id))

\* analyze_and_update_conversation(id) is called on its own
AnaCall(id) ==
  /\ Len(ana_tasks) < MaxTasks
  /\ ana_tasks' = create_task(ana_tasks, id)
  /\ UNCHANGED <<convVars, otherThanConvAna>>

\* lines 285-303: the turn is read, then the analysis LLM is awaited
AnaFetch(t, fail) ==
  /\ t \in DOMAIN ana_tasks
  /\ ana_tasks[t].pc = "created"
  /\ LET conversation == get_conversation_by_id(user_conversations,
                                                 ana_tasks[t].conversation_id, fail)
     IN ana_tasks' = [ana_tasks EXCEPT ![t] =
          IF conversation = EmptyDict
          THEN [@ EXCEPT !.pc = "done", !.outcome = "no turn", !.ret = "empty"]
          ELSE [@ EXCEPT !.pc = "llm", !.conversation = conversation]]
  /\ UNCHANGED <<convVars, otherThanConvAna>>

\* lines 299-332: the analysis LLM answered or failed; the turn is updated
\* unless there is nothing to write or the store raises
AnaFinish(t, out, fail) ==
  /\ t \in DOMAIN ana_tasks
  /\ ana_tasks[t].pc = "llm"
  /\ LET analysis == analyze_with_llm(out)
         updates == analysis_updates(ana_tasks[t].conversation, analysis, <<"now", t>>)
     IN IF updates = EmptyDict \/ fail
        THEN /\ ana_tasks' = [ana_tasks EXCEPT ![t] =
                   [@ EXCEPT !.pc = "done", !.outcome = out,
                             !.ret = IF out = "list" \/ updates # EmptyDict THEN "empty"
                                     ELSE "conversation"]]
             /\ UNCHANGED user_conversations
        ELSE /\ user_conversations' =
                   update_rows(user_conversations, ana_tasks[t].conversation_id, updates)
             /\ ana_tasks' = [ana_tasks EXCEPT ![t] =
                   [@ EXCEPT !.pc = "done", !.outcome = out, !.ret = "updated"]]
  /\ UNCHANGED <<telegram_users, user_id_cache, save_result, save_call, otherThanConvAna>>

\* ---- analyze_and_update_conversation on a table of saved turns ----------
\* the metadata a turn of the table holds before it is analysed: the {} that
\* save_conversation inserts (line 119), or a dict with a key of its own
MetadataSeeds == {EmptyDict, [k \in {"source"} |-> "import"]}

SeededRow(i, meta) ==
  [NewRow(i, "u1", 7, i, Text("q", i), Text("a", i)) EXCEPT !.metadata = meta]

SeededTables ==
  UNION {{[i \in 1..n |-> SeededRow(i, m[i])] : m \in [1..n -> MetadataSeeds]} :
           n \in 0..MaxAnaTurns}

AnaConvInit ==
  /\ telegram_users = InitialUsers
  /\ user_conversations \in SeededTables
  /\ user_id_cache = <<>>
  /\ save_result = None
  /\ save_call = NoSave

InitAna == AnaConvInit /\ ThreadInit /\ ChunkIdle /\ IngestInit /\ CatIdle /\ RetrIdle /\ CtxIdle /\ IdentIdle /\ AnaIdle /\ MsgIdle /\ AskIdle
NextAna ==
  \/ \E id \in 1..(MaxAnaTurns + 1) : AnaCall(id)
  \/ \E t \in 1..MaxTasks, fail \in BOOLEAN : AnaFetch(t, fail)
  \/ \E t \in 1..MaxTasks, out \in AnalysisOutcomes, fail \in BOOLEAN : AnaFinish(t, out, fail)
SpecAna == InitAna /\ [][NextAna]_vars

\* the calls that end in this step
Finishing == {t \in DOMAIN ana_tasks : ana_tasks[t].pc # "done" /\ ana_tasks'[t].pc = "done"}

TurnIds == {user_conversations[i].id : i \in DOMAIN user_conversations}

\* C18: when the analysis LLM call fails or answers text that does not
\* parse, or no turn has the id, analyze_and_update_conversation returns
\* (it raises nothing) and every persisted turn is as it was.
C18_FailedAnalysisLeavesTurns ==
  [][\A t \in Finishing :
       ana_tasks'[t].outcome \in {"raises", "unparseable", "no turn"}
         => /\ user_conversations' = user_conversations
            /\ ana_tasks'[t].ret \in {"empty", "conversation"}]_vars

\* C18 witness: a call for an id that no turn has, and a call for a saved
\* turn whose LLM call raised or answered unparseable text, have both ended.
C18_Witness ==
  /\ Len(user_conversations) = MaxAnaTurns
  /\ Len(ana_tasks) = 2
  /\ ana_tasks[1].pc = "done"
  /\ ana_tasks[1].outcome = "no turn"
  /\ ana_tasks[1].conversation_id \notin TurnIds
  /\ ana_tasks[2].pc = "done"
  /\ ana_tasks[2].outcome \in {"raises", "unparseable"}
  /\ ana_tasks[2].conversation_id \in TurnIds

AnalysisColumns == {"sentiment", "summary", "topics", "metadata"}
AnalysisMetadataKeys == {"analysis_timestamp", "entities", "intent"}

\* row new is row old but for the analysis columns, and the metadata keys
\* that are not analysis keys are kept with their values
OnlyAnalysisChanged(old, new) ==
  /\ \A c \in DOMAIN old \ AnalysisColumns : new[c] = old[c]
  /\ \A k \in DOMAIN old.metadata \ AnalysisMetadataKeys :
       k \in DOMAIN new.metadata /\ new.metadata[k] = old.metadata[k]

\* C19: analyze_and_update_conversation changes only sentiment, summary,
\* topics and metadata of the turn it analyses: every other turn and every
\* other column stay as they were, no turn is added or removed, and the
\* metadata keys other than analysis_timestamp, entities and intent keep
\* their values.
C19_AnalysisFrame ==
  [][/\ DOMAIN user_conversations' = DOMAIN user_conversations
     /\ \A i \in DOMAIN user_conversations :
          \/ user_conversations'[i] = user_conversations[i]
          \/ /\ \E t \in Finishing :
                  ana_tasks[t].conversation_id = user_conversations[i].id
             /\ OnlyAnalysisChanged(user_conversations[i], user_conversations'[i])]_vars

\* C19 witness: a turn whose metadata had a key of its own was analysed and
\* holds that key beside the analysis keys, and another turn is unanalysed.
C19_Witness ==
  /\ Len(user_conversations) = 2
  /\ user_conversations[1].sentiment = "sentiment"
  /\ DOMAIN user_conversations[1].metadata = {"source"} \cup AnalysisMetadataKeys
  /\ user_conversations[1].metadata["source"] = "import"
  /\ user_conversations[2].sentiment = None
  /\ user_conversations[2].metadata = [k \in {"source"} |-> "import"]

(***************************************************************************)
(* The request handlers POST /message (exbordia/api.py) and                *)
(* GeneralWorkflow.process.  A handler is a coroutine: it reads the        *)
(* context, is suspended at the await of the completion, and when it is    *)
(* resumed it saves the turn, hands the analysis to the event loop and     *)
(* returns.  The context read and the save hold no suspension point, so    *)
(* the handler has two steps; other requests and the analysis tasks run    *)
(* while it waits for the completion.                                      *)
(***************************************************************************)
Handlers == {"message", "workflow"}
ErrorTexts == {"e1", "e2"}

\* the fixed texts of the except clauses; a response text is the sequence of
\* the parts it is formatted from
AskApology == "Lo siento, ocurrió un error al procesar tu consulta."
AssistantApology == "Lo siento, ocurrió un error al procesar tu mensaje: "

\* what a handler answers when a call of its try block raised e.
\* POST /message raises HTTPException(500, detail=str(e)): status 500 and the
\* body {"detail": str(e)}.  POST /ask returns {"response": apology}, which
\* is sent with status 200.  assistant.process_message returns a dict, with
\* no status, whose response is the apology followed by str(e).
\* GeneralWorkflow.process has no except clause and the exception leaves it.
failure_answer(handler, e) ==
  CASE handler = "message" ->
         [handler |-> handler, failed |-> TRUE, raised |-> FALSE, status |-> 500,
          response |-> NoText, detail |-> e, task |-> 0]
    [] handler = "ask" ->
         [handler |-> handler, failed |-> TRUE, raised |-> FALSE, status |-> 200,
          response |-> <<AskApology>>, detail |-> None, task |-> 0]
    [] handler = "assistant" ->
         [handler |-> handler, failed |-> TRUE, raised |-> FALSE, status |-> 0,
          response |-> <<AssistantApology, e>>, detail |-> None, task |-> 0]
    [] OTHER ->
         [handler |-> handler, failed |-> TRUE, raised |-> TRUE, status |-> 0,
          response |-> NoText, detail |-> e, task |-> 0]

\* the requests whose completion is awaited
AwaitingCompletion == {p \in MsgRequests : msg_pc[p] = "completing"}

\* api.py lines 52-79, general_workflow.py lines 15-42: the context of the
\* session is read (fail names the store call of the read that raises; the
\* read then yields no conversations, conversation_service.py lines
\* 164-166), the messages for the completion are put together and the
\* completion is awaited.  The answer of the completion is an input of the
\* step that resumes the handler, so the messages sent to it are not kept.
MsgReceive(p, handler, tid, sid, fail) ==
  /\ msg_pc[p] = "idle"
  /\ \A q \in MsgRequests : q < p => msg_pc[q] # "idle"
  /\ Len(user_conversations) + Cardinality(AwaitingCompletion) < MaxMsgTurns
  /\ Len(ana_tasks) + Cardinality(AwaitingCompletion) < MaxTasks
  /\ LET got == get_recent_conversations(telegram_users, user_id_cache,
                                          user_conversations, tid, sid, 5, fail)
         query == Text("q", Len(user_conversations) + Cardinality(AwaitingCompletion) + 1)
     IN /\ user_id_cache' = got[2]
        /\ msg_local' = [msg_local EXCEPT ![p] =
               [handler |-> handler, telegram_id |-> tid, session_id |-> sid,
                query |-> query]]
  /\ msg_pc' = [msg_pc EXCEPT ![p] = "completing"]
  /\ UNCHANGED <<telegram_users, user_conversations, save_result, save_call,
                 msg_resp, ana_tasks, otherThanConvAnaMsg>>

\* api.py lines 82-111, general_workflow.py lines 45-74: the completion
\* answered; the turn is saved (fail names the store call of the save that
\* raises), the analysis is handed to the event loop if the save returned a
\* row, and the response is returned
MsgAnswer(p, fail) ==
  /\ msg_pc[p] = "completing"
  /\ LET answer == Text("a", Len(user_conversations) + 1) IN
     /\ save_conversation(msg_local[p].telegram_id, msg_local[p].session_id,
                           msg_local[p].query, answer, fail)
     /\ ana_tasks' = IF save_result' # EmptyDict
                      THEN create_task(ana_tasks, save_result'.id) ELSE ana_tasks
     /\ msg_resp' = [handler |-> msg_local[p].handler, failed |-> FALSE, raised |-> FALSE,
                     status |-> 200,
                     response |-> answer, detail |-> None,
                     task |-> IF save_result' # EmptyDict THEN Len(ana_tasks) + 1 ELSE 0]
  /\ msg_pc' = [msg_pc EXCEPT ![p] = "idle"]
  /\ msg_local' = [msg_local EXCEPT ![p] = NoRequest]
  /\ UNCHANGED otherThanConvAnaMsg

\* api.py lines 112-114: the completion raised, or its answer has no
\* choices or no usage; nothing is saved
MsgFails(p, e) ==
  /\ msg_pc[p] = "completing"
  /\ msg_resp' = failure_answer(msg_local[p].handler, e)
  /\ msg_pc' = [msg_pc EXCEPT ![p] = "idle"]
  /\ msg_local' = [msg_local EXCEPT ![p] = NoRequest]
  /\ UNCHANGED <<convVars, ana_tasks, otherThanConvAnaMsg>>

InitMsg == ConvInit /\ ThreadInit /\ ChunkIdle /\ IngestInit /\ CatIdle /\ RetrIdle /\ CtxIdle /\ IdentIdle /\ AnaIdle /\ MsgIdle /\ AskIdle

\* the handlers serving overlapping requests beside the analysis tasks they
\* started
NextMsg ==
  \/ \E p \in MsgRequests, handler \in Handlers, tid \in TelegramIds, sid \in SessionIds,
        fail \in ContextFaults : MsgReceive(p, handler, tid, sid, fail)
  \/ \E p \in MsgRequests, fail \in SaveFaults : MsgAnswer(p, fail)
  \/ \E p \in MsgRequests, e \in ErrorTexts : MsgFails(p, e)
  \/ \E t \in 1..MaxTasks, fail \in BOOLEAN : AnaFetch(t, fail)
  \/ \E t \in 1..MaxTasks, out \in AnalysisOutcomes, fail \in BOOLEAN : AnaFinish(t, out, fail)
SpecMsg == InitMsg /\ [][NextMsg]_vars

\* ---- the failure answers of the top-level request handlers --------------
TopLevelHandlers == {"message", "ask", "assistant"}

\* rg_crawlAI_agent/api.py lines 23-63 and 114-116: a call of POST /ask
\* raises e before the turn is inserted; nothing was written
AskFails(e) ==
  /\ msg_resp' = failure_answer("ask", e)
  /\ UNCHANGED <<msg_pc, msg_local, convVars, ana_tasks, otherThanConvAnaMsg>>

\* assistant.py lines 84-103 and 121-127: Runner.run raises e in a call of
\* process_message; thread_results is not written
AssistantFails(e) ==
  /\ msg_resp' = failure_answer("assistant", e)
  /\ UNCHANGED <<msg_pc, msg_local, convVars, ana_tasks, otherThanConvAnaMsg>>

NextTop ==
  \/ NextMsg
  \/ \E e \in ErrorTexts : AskFails(e)
  \/ \E e \in ErrorTexts : AssistantFails(e)
SpecTop == InitMsg /\ [][NextTop]_vars

ServerErrorStatus == 500..599

\* C20: a top-level request handler answers an internal failure with a
\* generic apology and a server-error status, and the answer holds no text
\* of the internal error.
C20_FailureAnswerIsGenericApology ==
  (msg_resp.failed /\ msg_resp.handler \in TopLevelHandlers) =>
    /\ ~msg_resp.raised
    /\ msg_resp.status \in ServerErrorStatus
    /\ msg_resp.response # NoText
    /\ msg_resp.response[1] \in {AskApology, AssistantApology}
    /\ msg_resp.detail \notin ErrorTexts
    /\ \A i \in DOMAIN msg_resp.response : msg_resp.response[i] \notin ErrorTexts

\* the requests answered with the completion's answer in this step
Answered == {p \in MsgRequests : msg_pc[p] = "completing" /\ msg_pc'[p] = "idle"
                                   /\ ~msg_resp'.failed}

\* C17: POST /message and GeneralWorkflow.process return the response of a
\* turn without waiting for analyze_and_update_conversation.  The step that
\* returns the response leaves every analysis task where it was, and the
\* task it starts has not run when the response is returned; the response
\* is the completion's answer whatever the analysis tasks of earlier turns
\* have done (updated a turn, failed, not run), and a request whose
\* completion is awaited can be answered in every state, whatever state
\* the analysis tasks are in.
C17_ResponseDoesNotAwaitAnalysis ==
  /\ [](\A p \in AwaitingCompletion : ENABLED MsgAnswer(p, "none"))
  /\ [][\A p \in Answered :
          /\ msg_resp'.status = 200
          /\ msg_resp'.response = Text("a", Len(user_conversations) + 1)
          /\ \A t \in DOMAIN ana_tasks : ana_tasks'[t] = ana_tasks[t]
          /\ msg_resp'.task # 0
               => /\ DOMAIN ana_tasks' = 1..msg_resp'.task
                  /\ ana_tasks'[msg_resp'.task].pc = "created"
                  /\ msg_resp'.response = save_result'.answer]_vars

\* C17 witness: two responses were returned; the analysis of the first
\* turn had failed when the second response was returned, and the analysis
\* of the second turn has not run.
C17_Witness ==
  /\ msg_resp.status = 200
  /\ msg_resp.task = 2
  /\ Len(ana_tasks) = 2
  /\ ana_tasks[1].pc = "done"
  /\ ana_tasks[1].outcome = "raises"
  /\ ana_tasks[2].pc = "created"

(***************************************************************************)
(* assistant.process_message and the module-level dict thread_results.     *)
(* A stored result is the item list its to_input_list() yields: the input  *)
(* of the run followed by the items the run generated.                     *)
(***************************************************************************)
UserIds == {1, 2}

UserItem(m) == [role |-> "user", content |-> m]
AssistantItem(m) == [role |-> "assistant", content |-> m]

\* lines 94-103: the input of the agent run
input_list(results, uid, m) ==
  IF uid \in DOMAIN results
  THEN results[uid] \o <<UserItem(m)>>
  ELSE <<UserItem(m)>>

\* the result stored under every key instead of the caller's
store_result_mut(results, uid, result) ==
  [u \in DOMAIN results \cup {uid} |-> result]

\* line 106: thread_results[user_id_str] = result
store_result(results, uid, result) ==
  [u \in DOMAIN results \cup {uid} |-> IF u = uid THEN result ELSE results[u]]

\* lines 22-66: the agents; triage_agent alone has handoffs
TriageAgent == "Triage Agent"
Specialists == {"Amazon Seller Expert", "Onboarding Agent"}

\* the agents a run that starts with agent can end with
handoff_targets(agent) ==
  IF agent = TriageAgent THEN {TriageAgent} \cup Specialists ELSE {agent}

\* lines 100 and 103: Runner.run(triage_agent, ...) in both branches
starting_agent(results, agents, uid) == TriageAgent

\* lines 84-103: a call enters, builds its input and awaits Runner.run
PMStart(p, uid) ==
  /\ pm_pc[p] = "idle"
  /\ pm_sent < MaxMsgs
  /\ pm_sent' = pm_sent + 1
  /\ pm_local' = [pm_local EXCEPT ![p] =
        [user_id |-> uid, message |-> pm_sent + 1,
         input |-> input_list(thread_results, uid, pm_sent + 1),
         starting_agent |-> starting_agent(thread_results, last_agent, uid)]]
  /\ pm_pc' = [pm_pc EXCEPT ![p] = "running"]
  /\ UNCHANGED <<thread_results, last_agent, pm_done, otherThanThread>>

\* lines 100-119: Runner.run returned; the result replaces the stored entry
PMRunSucceeds(p, agent) ==
  /\ pm_pc[p] = "running"
  /\ agent \in handoff_targets(pm_local[p].starting_agent)
  /\ last_agent' = store_result(last_agent, pm_local[p].user_id, agent)
  /\ LET result == pm_local[p].input \o <<AssistantItem(pm_local[p].message)>> IN
     thread_results' = store_result(thread_results, pm_local[p].user_id, result)
  /\ pm_done' = pm_done \cup {[user_id |-> pm_local[p].user_id,
                               message |-> pm_local[p].message]}
  /\ pm_pc' = [pm_pc EXCEPT ![p] = "idle"]
  /\ pm_local' = [pm_local EXCEPT ![p] = <<>>]
  /\ UNCHANGED <<pm_sent, otherThanThread>>

\* lines 121-127: Runner.run raised; the apology is returned
PMRunFails(p) ==
  /\ pm_pc[p] = "running"
  /\ pm_pc' = [pm_pc EXCEPT ![p] = "idle"]
  /\ pm_local' = [pm_local EXCEPT ![p] = <<>>]
  /\ UNCHANGED <<thread_results, last_agent, pm_sent, pm_done, otherThanThread>>

InitThread == ConvInit /\ ThreadInit /\ ChunkIdle /\ IngestInit /\ CatIdle /\ RetrIdle /\ CtxIdle /\ IdentIdle /\ AnaIdle /\ MsgIdle /\ AskIdle
NextThread ==
  \/ \E p \in Callers, uid \in UserIds : PMStart(p, uid)
  \/ \E p \in Callers, agent \in {TriageAgent} \cup Specialists : PMRunSucceeds(p, agent)
  \/ \E p \in Callers : PMRunFails(p)
SpecThread == InitThread /\ [][NextThread]_vars

\* C21: after a turn in which the triage agent handed a user's conversation
\* over to a specialist, the next process_message call for that user starts
\* its run with that specialist.
C21_NextCallStartsWithSpecialist ==
  [][\A p \in Callers :
       (pm_pc[p] = "idle" /\ pm_pc'[p] = "running") =>
         LET uid == pm_local'[p].user_id IN
         (uid \in DOMAIN last_agent /\ last_agent[uid] \in Specialists)
           => pm_local'[p].starting_agent = last_agent[uid]]_vars

\* the state stored for uid, <<>> when there is none
StoredFor(results, uid) == IF uid \in DOMAIN results THEN results[uid] ELSE <<>>

\* C29: the state stored in thread_results for a user changes only in the
\* step in which a process_message call for that user ends with a
\* successful agent run, and it becomes that run's result: the history the
\* call was started with, the new user turn and the run's answer.  A failed
\* run and a call for another user leave it as it was.
C29_StoredStateFrame ==
  [][\A uid \in UserIds :
       StoredFor(thread_results', uid) # StoredFor(thread_results, uid) =>
         \E p \in Callers :
           /\ pm_pc[p] = "running" /\ pm_pc'[p] = "idle"
           /\ pm_local[p].user_id = uid
           /\ [user_id |-> uid, message |-> pm_local[p].message] \in pm_done' \ pm_done
           /\ thread_results'[uid] =
                pm_local[p].input \o <<AssistantItem(pm_local[p].message)>>
           /\ pm_local[p].input[Len(pm_local[p].input)] = UserItem(pm_local[p].message)]_vars

\* C29 witness: two users have a stored state, and a third call failed.
C29_Witness ==
  /\ DOMAIN thread_results = {1, 2}
  /\ pm_sent = 3
  /\ Cardinality(pm_done) = 2
  /\ \A p \in Callers : pm_pc[p] = "idle"

\* C3: after concurrent process_message calls for one user whose agent runs
\* all succeeded, the state stored for the user holds the user turn of every
\* one of them.
C3_NoLostUpdate ==
  \A c \in pm_done :
    (\A p \in Callers : pm_pc[p] = "idle")
      => /\ c.user_id \in DOMAIN thread_results
         /\ UserItem(c.message) \in Range(thread_results[c.user_id])

(***************************************************************************)
(* notion_uploader.chunk_text.  A text is a sequence of characters;        *)
(* offsets are 0-based as in the source, text[a:b] is Slice(text, a, b).   *)
(***************************************************************************)
\* The backtick cannot be written in a TLA+ string: "#" stands for it.
Backtick == "#"
Chars == {"a", " ", "\n", ".", Backtick}
Whitespace == {" ", "\n"}
Texts == UNION {[1..n -> Chars] : n \in 0..MaxTextLen}

\* text[a:b] for 0 <= a; a negative b counts from the end of the text
Slice(text, a, b) ==
  SubSeq(text, a + 1, IF b < 0 THEN Max(Len(text) + b, 0) ELSE Min(b, Len(text)))

\* str.rfind: highest 0-based offset at which pat occurs, or -1
rfind(s, pat) ==
  LET hits == {i \in 0..(Len(s) - Len(pat)) : SubSeq(s, i + 1, i + Len(pat)) = pat}
  IN IF hits = {} THEN -1 ELSE CHOOSE i \in hits : \A j \in hits : j <= i

\* str.strip
strip(s) ==
  LET keep == {i \in DOMAIN s : s[i] \notin Whitespace} IN
  IF keep = {} THEN <<>>
  ELSE LET lo == CHOOSE i \in keep : \A j \in keep : i <= j
           hi == CHOOSE i \in keep : \A j \in keep : j <= i
       IN SubSeq(s, lo, hi)

\* x > chunk_size * 0.3 for an integer x
PastThreshold(x, chunk_size) == 10 * x > 3 * chunk_size

\* the hard cut taken one character too far
chunk_end_mut(text, start, chunk_size) ==
  LET end == start + chunk_size
      chunk == Slice(text, start, end)
      code_block == rfind(chunk, <<Backtick, Backtick, Backtick>>)
      last_break == rfind(chunk, <<"\n", "\n">>)
      last_period == rfind(chunk, <<".", " ">>)
  IN IF code_block # -1 /\ PastThreshold(code_block, chunk_size)
       THEN start + code_block
     ELSE IF last_break # -1
       THEN IF PastThreshold(last_break, chunk_size) THEN start + last_break ELSE end + 1
     ELSE IF last_period # -1
       THEN IF PastThreshold(last_period, chunk_size) THEN start + last_period + 1 ELSE end + 1
     ELSE end + 1

\* lines 45-70: the end offset of the chunk that starts at start, for a
\* window that does not reach the end of the text
chunk_end(text, start, chunk_size) ==
  LET end == start + chunk_size
      chunk == Slice(text, start, end)
      code_block == rfind(chunk, <<Backtick, Backtick, Backtick>>)
      last_break == rfind(chunk, <<"\n", "\n">>)
      last_period == rfind(chunk, <<".", " ">>)
  IN IF code_block # -1 /\ PastThreshold(code_block, chunk_size)
       THEN start + code_block
     ELSE IF last_break # -1
       THEN IF PastThreshold(last_break, chunk_size) THEN start + last_break ELSE end
     ELSE IF last_period # -1
       THEN IF PastThreshold(last_period, chunk_size) THEN start + last_period + 1 ELSE end
     ELSE end

next_start_mut(start, end) == end + 1

\* the next start without the forward-progress guard
next_start_unguarded(start, end) == end

\* line 78: start = max(start + 1, end)
next_start(start, end) == Max(start + 1, end)

\* lines 43-78: one iteration of the while loop
chunk_iteration(text, chunk_size, start, chunks) ==
  IF start + chunk_size >= Len(text)
  THEN [start |-> start, done |-> TRUE, appended |-> TRUE,
        span |-> <<start, Len(text)>>,
        chunks |-> Append(chunks, strip(Slice(text, start, Len(text))))]
  ELSE LET end == chunk_end(text, start, chunk_size)
           chunk == strip(Slice(text, start, end))
       IN [start |-> next_start(start, end), done |-> FALSE,
           appended |-> chunk # <<>>, span |-> <<start, end>>,
           chunks |-> IF chunk # <<>> THEN Append(chunks, chunk) ELSE chunks]

\* lines 37-80 as a function
RECURSIVE chunk_loop(_, _, _, _)
chunk_loop(text, chunk_size, start, chunks) ==
  IF ~(start < Len(text)) THEN chunks
  ELSE LET it == chunk_iteration(text, chunk_size, start, chunks) IN
       IF it.done THEN it.chunks
       ELSE chunk_loop(text, chunk_size, it.start, it.chunks)

chunk_text(text, chunk_size) == chunk_loop(text, chunk_size, 0, <<>>)

\* the call chunk_text(text, chunk_size) is entered
ChunkEnter(texts, sizes) ==
  /\ ct_text \in texts
  /\ ct_size \in sizes
  /\ ct_start = 0
  /\ ct_chunks = <<>>
  /\ ct_spans = <<>>
  /\ ct_iters = 0
  /\ ct_pc = "loop"

ChunkInit == ChunkEnter(Texts, 1..MaxChunkSize)

\* one iteration of the while loop
ChunkIterate ==
  /\ ct_pc = "loop"
  /\ ct_start < Len(ct_text)
  /\ LET it == chunk_iteration(ct_text, ct_size, ct_start, ct_chunks) IN
     /\ ct_start' = it.start
     /\ ct_chunks' = it.chunks
     /\ ct_spans' = IF it.appended THEN Append(ct_spans, it.span) ELSE ct_spans
     /\ ct_pc' = IF it.done THEN "done" ELSE "loop"
  /\ ct_iters' = ct_iters + 1
  /\ UNCHANGED <<ct_text, ct_size, otherThanChunk>>

\* the loop condition fails: return chunks
ChunkReturn ==
  /\ ct_pc = "loop"
  /\ ~(ct_start < Len(ct_text))
  /\ ct_pc' = "done"
  /\ UNCHANGED <<ct_text, ct_size, ct_start, ct_chunks, ct_spans, ct_iters, otherThanChunk>>

InitChunk == ConvInit /\ ThreadInit /\ ChunkInit /\ IngestInit /\ CatIdle /\ RetrIdle /\ CtxIdle /\ IdentIdle /\ AnaIdle /\ MsgIdle /\ AskIdle
NextChunk == ChunkIterate \/ ChunkReturn
SpecChunk == InitChunk /\ [][NextChunk]_vars

RECURSIVE Flatten(_)
Flatten(ss) == IF ss = <<>> THEN <<>> ELSE Head(ss) \o Flatten(Tail(ss))

NonWhitespace(s) == SelectSeq(s, LAMBDA c : c \notin Whitespace)

\* C10: the segments chunk_text returns are cut from disjoint, increasing
\* ranges of the text, and together they hold every non-whitespace character
\* of the text exactly once and in order.
C10_ChunksCoverText ==
  ct_pc = "done" =>
    /\ Len(ct_spans) = Len(ct_chunks)
    /\ \A i \in DOMAIN ct_chunks :
         /\ 0 <= ct_spans[i][1] /\ ct_spans[i][1] < ct_spans[i][2]
         /\ ct_spans[i][2] <= Len(ct_text)
         /\ ct_chunks[i] = strip(Slice(ct_text, ct_spans[i][1], ct_spans[i][2]))
         /\ i > 1 => ct_spans[i - 1][2] <= ct_spans[i][1]
    /\ NonWhitespace(Flatten(ct_chunks)) = NonWhitespace(ct_text)

\* C10 witness: a text was cut into several segments, one of them at a code
\* fence, and whitespace was stripped on the way.
C10_Witness ==
  /\ ct_pc = "done"
  /\ Len(ct_chunks) >= 2
  /\ Flatten(ct_chunks) # ct_text
  /\ \E i \in DOMAIN ct_spans :
       /\ ct_spans[i][2] - ct_spans[i][1] < ct_size
       /\ ct_spans[i][2] + 3 <= Len(ct_text)
       /\ SubSeq(ct_text, ct_spans[i][2] + 1, ct_spans[i][2] + 3)
            = <<Backtick, Backtick, Backtick>>

\* C11: every segment chunk_text returns is a non-empty string without
\* leading or trailing whitespace, the last segment included.
C11_SegmentsNonEmptyStripped ==
  ct_pc = "done" =>
    \A i \in DOMAIN ct_chunks :
      /\ ct_chunks[i] # <<>>
      /\ ct_chunks[i][1] \notin Whitespace
      /\ ct_chunks[i][Len(ct_chunks[i])] \notin Whitespace

\* C23: a segment cut from a window that does not reach the end of the text
\* and has no code fence and no blank-line break past 30% of chunk_size, but
\* whose last ". " lies past 30%, ends immediately after that period.
C23_SentenceCutPastThreshold ==
  \A i \in DOMAIN ct_spans :
    LET start == ct_spans[i][1]
        chunk == Slice(ct_text, start, start + ct_size)
        code_block == rfind(chunk, <<Backtick, Backtick, Backtick>>)
        last_break == rfind(chunk, <<"\n", "\n">>)
        last_period == rfind(chunk, <<".", " ">>)
    IN (/\ start + ct_size < Len(ct_text)
        /\ ~PastThreshold(code_block, ct_size)
        /\ ~PastThreshold(last_break, ct_size)
        /\ PastThreshold(last_period, ct_size))
         => ct_spans[i][2] = start + last_period + 1

\* C12: for chunk_size >= 1 no segment chunk_text returns is longer than
\* chunk_size characters, whichever boundary the cut was made at.
C12_SegmentsWithinChunkSize ==
  \A i \in DOMAIN ct_chunks : Len(ct_chunks[i]) <= ct_size

\* C12 witness: a text was cut into three segments or more, one at a hard
\* cut (a full window of chunk_size characters) and one at a sentence end or
\* paragraph break (cut before the window was full).
C12_Witness ==
  /\ ct_pc = "done"
  /\ Len(ct_chunks) >= 3
  /\ \E i \in DOMAIN ct_spans :
       /\ ct_spans[i][2] < Len(ct_text)
       /\ ct_spans[i][2] - ct_spans[i][1] = ct_size
  /\ \E i \in DOMAIN ct_spans :
       /\ ct_spans[i][2] < Len(ct_text)
       /\ ct_spans[i][2] - ct_spans[i][1] < ct_size
       /\ \/ ct_text[ct_spans[i][2]] = "."
          \/ /\ ct_spans[i][2] + 2 <= Len(ct_text)
             /\ SubSeq(ct_text, ct_spans[i][2] + 1, ct_spans[i][2] + 2) = <<"\n", "\n">>

\* chunk_text entered with any integer chunk_size, zero and negative included
ChunkSizesAny == (0 - 1)..MaxChunkSize
ChunkInitAny == ChunkEnter(Texts, ChunkSizesAny)
InitChunkAny == ConvInit /\ ThreadInit /\ ChunkInitAny /\ IngestInit /\ CatIdle /\ RetrIdle /\ CtxIdle /\ IdentIdle /\ AnaIdle /\ MsgIdle /\ AskIdle
SpecChunkAny == InitChunkAny /\ [][NextChunk]_vars

\* C13: chunk_text terminates on every text and chunk_size: every iteration
\* that does not leave the loop moves start forward by at least 1, so the
\* loop runs at most len(text) times.
C13_LoopBoundedByTextLength ==
  /\ ct_iters <= Len(ct_text)
  /\ ct_pc = "loop" => ct_iters <= ct_start

\* C13 witness: with a chunk_size below 1 the window is empty or reversed,
\* only the guard max(start + 1, end) moves start, and the call returned
\* after exactly len(text) iterations.
C13_Witness ==
  /\ ct_pc = "done"
  /\ ct_size < 1
  /\ Len(ct_text) >= 3
  /\ ct_iters = Len(ct_text)
  /\ ct_start = Len(ct_text)

(***************************************************************************)
(* notion_uploader.process_notion_page.  A run is a coroutine: it runs     *)
(* without interruption up to an await and is suspended there.  Its        *)
(* suspension points are the await of the Notion blocks (line 338), the    *)
(* gather of the process_chunk tasks (line 357) and the gather of the      *)
(* insert_chunk tasks (line 364), each of which is a task of its own.      *)
(* What the outside world answers is an input of the step that resumes     *)
(* the run: the text extracted from the page, the call that raises, the    *)
(* delete calls executed before a delete raised, and whether an insert     *)
(* succeeded.  fetch_notion_documents (lines 387-388) awaits each run      *)
(* before it starts the next one.                                          *)
(***************************************************************************)
PageIds == {"p1", "p2", "p3"}

\* property ID of a page (a number), or None: p1 and p2 carry the same ID
custom_id(page) == IF page \in {"p1", "p2"} THEN "1" ELSE None

\* lines 316-321: doc_id = page_id, or f"custom-{custom_id}"
doc_id(page) == IF custom_id(page) # None THEN <<"custom-", custom_id(page)>> ELSE <<page>>

\* line 324 and line 224: url = f"notion://{doc_id}"
page_url(page) == <<"notion://">> \o doc_id(page)

\* texts extract_content_from_blocks can yield for a page
PageTexts ==
  { <<>>,
    <<"a">>,
    <<"a", "a", "a">>,
    <<"a", ".", " ", "a", "a">> }

\* line 349: chunks = chunk_text(content), tabulated over the page texts
page_chunks == [content \in PageTexts |-> chunk_text(content, IngestChunkSize)]

chunk_row_mut(url, chunk_number, content) ==
  [url |-> url, chunk_number |-> 0, content |-> content]

\* lines 236-247 and 252-266: the row built for chunk i of the document
chunk_row(url, chunk_number, content) ==
  [url |-> url, chunk_number |-> chunk_number, content |-> content]

\* line 327: select("url, chunk_number").eq("url", url)
existing_chunks(rows, url) == {r \in BagToSet(rows) : r.url = url}

\* the chunk numbers the loop of lines 333-334 goes through
stored_numbers(rows, url) == {r.chunk_number : r \in existing_chunks(rows, url)}

delete_chunks_mut(rows, url, numbers) ==
  LET first == {n \in numbers : \A m \in numbers : n <= m}
      kept == {r \in BagToSet(rows) : ~(r.url = url /\ r.chunk_number \in first)}
  IN [r \in kept |-> rows[r]]

\* lines 333-334: delete().eq("url", url).eq("chunk_number", n) for n in numbers
delete_chunks(rows, url, numbers) ==
  LET kept == {r \in BagToSet(rows) : ~(r.url = url /\ r.chunk_number \in numbers)}
  IN [r \in kept |-> rows[r]]

\* lines 252-268: one insert_chunk call that succeeded
insert_chunk(rows, row) == rows (+) SetToBag({row})

\* the rows of one url
RowsOf(rows, url) ==
  LET kept == {r \in BagToSet(rows) : r.url = url} IN [r \in kept |-> rows[r]]

\* no run is in flight
NoRunInFlight == \A r \in IngestRuns : ing_run[r].pc = "idle"

\* every run so far started after the runs before it had returned
Sequential == NoRunInFlight /\ ~ing_overlapped

\* the run r ends with outcome: what is recorded about it
end_run(r, run, outcome) ==
  /\ ing_last' = [page |-> run.page, url |-> page_url(run.page), content |-> run.content,
                  outcome |-> outcome, clean |-> run.clean /\ outcome = "completed"]
  /\ ing_run' = [ing_run EXCEPT ![r] = NoIngest]

\* lines 277-338: the run r starts on page.  The select (line 327) and the
\* deletes (lines 333-334) are calls without an await; fail names the call
\* that raises ("select", "delete") or "none", deleted the chunk numbers
\* whose delete was executed.  The loop makes one delete call for every
\* row the select returned, and a call removes every row of its chunk
\* number: the calls executed before one raises are fewer than the rows,
\* and they can have removed every row when rows share a chunk number.
\* With no failure the run is suspended at the await of line 338.  Runs
\* overlap among the first MaxRuns runs of a behaviour.
IngestBegin(r, page, fail, deleted) ==
  LET url == page_url(page)
      numbers == stored_numbers(site_pages, url)
      run == [NoIngest EXCEPT !.page = page,
                              !.before = IF Sequential THEN RowsOf(site_pages, url)
                                         ELSE EmptyBag,
                              !.replaced = fail # "select" /\ numbers # {}]
  IN /\ ing_run[r].pc = "idle"
     /\ \A q \in IngestRuns : q < r => ing_run[q].pc # "idle"
     /\ IF NoRunInFlight THEN ing_overlapped' = ing_overlapped
        ELSE /\ ing_started < MaxRuns
             /\ ing_overlapped' = TRUE
     /\ ing_started' = IF ing_started < MaxRuns THEN ing_started + 1 ELSE ing_started
     /\ \/ /\ fail = "select"
           /\ deleted = {}
           /\ site_pages' = site_pages
           /\ end_run(r, run, "aborted")
        \/ /\ fail = "delete"
           /\ deleted \subseteq numbers
           /\ Cardinality(deleted) < BagCardinality(RowsOf(site_pages, url))
           /\ site_pages' = delete_chunks(site_pages, url, deleted)
           /\ end_run(r, run, "aborted")
        \/ /\ fail = "none"
           /\ deleted = numbers
           /\ site_pages' = delete_chunks(site_pages, url, deleted)
           /\ ing_run' = [ing_run EXCEPT ![r] = [run EXCEPT !.pc = "blocks"]]
           /\ ing_last' = ing_last
     /\ UNCHANGED otherThanIngest

\* lines 338-357: the Notion call of line 338 answers with blocks that
\* yield content, or raises (fail).  An empty content ends the run at line
\* 346; otherwise the run is suspended at the gather of line 357.  The
\* pages explored have texts of at most MaxPageChunks chunks.
IngestBlocks(r, content, fail) ==
  LET run == ing_run[r]
  IN /\ run.pc = "blocks"
     /\ Len(page_chunks[content]) <= MaxPageChunks
     /\ IF fail THEN end_run(r, run, "aborted")
        ELSE IF strip(content) = <<>>
          THEN end_run(r, [run EXCEPT !.content = content], "skipped")
          ELSE /\ ing_run' = [ing_run EXCEPT ![r] = [run EXCEPT !.pc = "chunks",
                                                               !.content = content]]
               /\ ing_last' = ing_last
     /\ UNCHANGED <<site_pages, ing_overlapped, ing_started, otherThanIngest>>

\* lines 357-364: the process_chunk tasks are done (their calls catch what
\* is raised); the insert_chunk tasks are created and the run is suspended
\* at the gather of line 364
IngestProcessed(r) ==
  /\ ing_run[r].pc = "chunks"
  /\ ing_run' = [ing_run EXCEPT ![r].pc = "insert", ![r].next = 1]
  /\ UNCHANGED <<site_pages, ing_last, ing_overlapped, ing_started, otherThanIngest>>

\* lines 249-273: the next insert_chunk task runs; ok tells whether its
\* insert succeeded (a failure is caught at lines 271-273).  After the last
\* task the gather of line 364 is over and the run waits to be resumed.
IngestInsert(r, ok) ==
  LET run == ing_run[r]
      chunks == page_chunks[run.content]
      row == chunk_row(page_url(run.page), run.next - 1, chunks[run.next])
      then == [run EXCEPT !.next = run.next + 1, !.clean = run.clean /\ ok]
  IN /\ run.pc = "insert"
     /\ site_pages' = IF ok THEN insert_chunk(site_pages, row) ELSE site_pages
     /\ ing_run' = [ing_run EXCEPT ![r] =
                      IF run.next = Len(chunks) THEN [then EXCEPT !.pc = "return"]
                      ELSE then]
     /\ UNCHANGED <<ing_last, ing_overlapped, ing_started, otherThanIngest>>

\* lines 364-366: the run is resumed after the gather of line 364 and
\* returns
IngestReturn(r) ==
  /\ ing_run[r].pc = "return"
  /\ end_run(r, ing_run[r], "completed")
  /\ UNCHANGED <<site_pages, ing_overlapped, ing_started, otherThanIngest>>

\* the steps of the runs in flight
IngestSteps ==
  \/ \E r \in IngestRuns, content \in PageTexts, fail \in BOOLEAN :
       IngestBlocks(r, content, fail)
  \/ \E r \in IngestRuns : IngestProcessed(r)
  \/ \E r \in IngestRuns, ok \in BOOLEAN : IngestInsert(r, ok)
  \/ \E r \in IngestRuns : IngestReturn(r)

InitIngest == ConvInit /\ ThreadInit /\ ChunkIdle /\ IngestInit /\ CatIdle /\ RetrIdle /\ CtxIdle /\ IdentIdle /\ AnaIdle /\ MsgIdle /\ AskIdle

\* process_notion_page called while other runs may be in flight
NextIngest ==
  \/ \E r \in IngestRuns, page \in PageIds, fail \in {"none", "select", "delete"} :
       \E deleted \in SUBSET stored_numbers(site_pages, page_url(page)) :
         IngestBegin(r, page, fail, deleted)
  \/ IngestSteps
SpecIngest == InitIngest /\ [][NextIngest]_vars

\* the run r returns in this step
IngestEnds(r) == ing_run[r].pc # "idle" /\ ing_run'[r].pc = "idle"

\* the number of rows stored for url
RowCount(rows, url) == BagCardinality(RowsOf(rows, url))

\* the run r, about to return, had no failure and is the second of two runs
\* executed one after another on the same page with the same text, the
\* first without failure too
RepeatRun(r) ==
  /\ ing_run[r].pc = "return"
  /\ ing_run[r].clean
  /\ ~ing_overlapped
  /\ ing_last.clean
  /\ ing_last.page = ing_run[r].page
  /\ ing_last.content = ing_run[r].content

\* C4: a second run of process_notion_page on the same unchanged document,
\* with no external failure in either run, leaves for its url exactly the
\* rows the first run left: the same rows, each of them once.
C4_IdempotentReingestion ==
  [][ \A r \in IngestRuns :
        (IngestEnds(r) /\ RepeatRun(r)) =>
          /\ RowsOf(site_pages', ing_last'.url) = ing_run[r].before
          /\ \A row \in BagToSet(RowsOf(site_pages', ing_last'.url)) : site_pages'[row] = 1
    ]_vars

\* C4 witness: a document of several chunks has been ingested twice in a
\* row; the second run deleted the chunks of the first, has inserted its
\* own and is about to return.
C4_Witness ==
  /\ RepeatRun(1)
  /\ ing_run[1].replaced
  /\ RowCount(site_pages, page_url(ing_run[1].page)) >= 2

\* C22: a run of process_notion_page on a document whose blocks yield no
\* extractable content leaves the chunk store as it was: nothing is inserted
\* and no chunk stored for the document's url is deleted.
C22_EmptyDocumentLeavesStore ==
  [][ \A r \in IngestRuns :
        (IngestEnds(r) /\ ing_last'.outcome = "skipped" /\ ~ing_overlapped) =>
          RowsOf(site_pages', ing_last'.url) = ing_run[r].before
    ]_vars

\* C5: as long as the runs of process_notion_page are executed one after
\* another, the chunk store never holds two rows with the same
\* (url, chunk_number).
C5_UniqueUrlChunkNumber ==
  ~ing_overlapped =>
    \A r1 \in BagToSet(site_pages) :
      /\ site_pages[r1] = 1
      /\ \A r2 \in BagToSet(site_pages) :
           (r1.url = r2.url /\ r1.chunk_number = r2.chunk_number) => r1 = r2

\* C5 witness: after the run of page p1 had returned, the run of page p2,
\* which has the same document id, deleted the chunks p1 had stored and has
\* inserted two chunks of its own.
C5_Witness ==
  /\ ~ing_overlapped
  /\ ing_last.page = "p1"
  /\ ing_last.outcome = "completed"
  /\ ing_run[1].page = "p2"
  /\ ing_run[1].replaced
  /\ ing_run[1].pc = "return"
  /\ ing_run[1].next = 3
  /\ RowCount(site_pages, page_url("p2")) = 2

\* C6: after every completed run, runs with failed insert_chunk calls
\* included, the chunk numbers stored for the url are exactly 0..n-1.
C6_ContiguousChunkNumbers ==
  [][ \A r \in IngestRuns :
        (IngestEnds(r) /\ ing_last'.outcome = "completed" /\ ~ing_overlapped) =>
          stored_numbers(site_pages', ing_last'.url)
            = 0..(RowCount(site_pages', ing_last'.url) - 1)
    ]_vars

(***************************************************************************)
(* notion_uploader.extract_categories_with_ai.  The classifier is an       *)
(* external call; what it yields is an input:                              *)
(*   kind "raise":  the call raised, or its content is not a JSON object   *)
(*   kind "object": a JSON object; key tells whether "categories" is       *)
(*                  missing, null, or a list (then categories is the list) *)
(***************************************************************************)
categories_list ==
  { "Logística", "Regulaciones y Aduanas", "Marketing y Publicidad",
    "Ventas y Conversión", "Finanzas y Costos", "Estrategia de Negocio",
    "Legales y Compliance", "Operaciones y Gestión de Inventario",
    "Optimización de Listados", "Customer Service y Devoluciones",
    "Amazon FBA y FBM", "Análisis de Competencia",
    "Expansión a Otros Mercados", "Amazon Seller Central",
    "Reembolsos y Cargos Ocultos" }

\* a list item that is not a string (a number, null, an object)
NonString == "<non-string>"

\* the items a classifier answer is built from
ClassifierLabels ==
  categories_list \cup {"uncategorized", "Uncategorized", "Envíos", NonString}

\* str.lower on the labels above
lower(cat) ==
  CASE cat = "Logística" -> "logística"
    [] cat = "Regulaciones y Aduanas" -> "regulaciones y aduanas"
    [] cat = "Marketing y Publicidad" -> "marketing y publicidad"
    [] cat = "Ventas y Conversión" -> "ventas y conversión"
    [] cat = "Finanzas y Costos" -> "finanzas y costos"
    [] cat = "Estrategia de Negocio" -> "estrategia de negocio"
    [] cat = "Legales y Compliance" -> "legales y compliance"
    [] cat = "Operaciones y Gestión de Inventario" -> "operaciones y gestión de inventario"
    [] cat = "Optimización de Listados" -> "optimización de listados"
    [] cat = "Customer Service y Devoluciones" -> "customer service y devoluciones"
    [] cat = "Amazon FBA y FBM" -> "amazon fba y fbm"
    [] cat = "Análisis de Competencia" -> "análisis de competencia"
    [] cat = "Expansión a Otros Mercados" -> "expansión a otros mercados"
    [] cat = "Amazon Seller Central" -> "amazon seller central"
    [] cat = "Reembolsos y Cargos Ocultos" -> "reembolsos y cargos ocultos"
    [] cat = "Uncategorized" -> "uncategorized"
    [] cat = "Envíos" -> "envíos"
    [] OTHER -> cat

LabelLists == UNION {[1..n -> ClassifierLabels] : n \in 0..MaxLabels}

Responses ==
  {[kind |-> "raise", key |-> None, categories |-> <<>>]}
    \cup {[kind |-> "object", key |-> k, categories |-> <<>>] : k \in {"missing", "null"}}
    \cup {[kind |-> "object", key |-> "list", categories |-> l] : l \in LabelLists}

\* line 467: cat in categories_list or cat.lower() == "uncategorized"
is_valid_category(cat) == cat \in categories_list \/ lower(cat) = "uncategorized"

\* lines 453-477
extract_categories_with_ai(response) ==
  IF response.kind = "raise" THEN <<"uncategorized">>
  ELSE IF response.key = "null" THEN <<"uncategorized">>
  ELSE LET extracted_categories ==
             IF response.key = "missing" THEN <<"uncategorized">>
             ELSE response.categories
       IN IF NonString \in Range(extracted_categories) THEN <<"uncategorized">>
          ELSE LET valid_categories == SelectSeq(extracted_categories, is_valid_category)
               IN IF valid_categories = <<>> THEN <<"uncategorized">>
                  ELSE valid_categories

CatInit ==
  /\ cat_response \in Responses
  /\ cat_result = <<>>
  /\ cat_pc = "call"
  /\ cat_final = NoFinal

Categorize ==
  /\ cat_pc = "call"
  /\ cat_result' = extract_categories_with_ai(cat_response)
  /\ cat_pc' = "done"
  /\ UNCHANGED <<cat_response, cat_final, otherThanCat>>

\* notion_uploader.py lines 296-305: the category a document declares,
\* lower-cased, or the default "uncategorized"
DeclaredCategories == {"logística", "envíos", "uncategorized"}

\* line 234: ai_categories if ai_categories and
\* ai_categories != ["uncategorized"] else [category]
final_categories(ai_categories, category) ==
  IF ai_categories # <<>> /\ ai_categories # <<"uncategorized">>
  THEN ai_categories ELSE <<category>>

\* lines 221-247: process_chunk after extract_categories_with_ai returned
ProcessChunk(category) ==
  /\ cat_pc = "done"
  /\ cat_response # NoResponse
  /\ cat_final = NoFinal
  /\ cat_final' = [category |-> category,
                   final_categories |-> final_categories(cat_result, category)]
  /\ UNCHANGED <<cat_response, cat_result, cat_pc, otherThanCat>>

InitCat == ConvInit /\ ThreadInit /\ ChunkIdle /\ IngestInit /\ CatInit /\ RetrIdle /\ CtxIdle /\ IdentIdle /\ AnaIdle /\ MsgIdle /\ AskIdle
NextCat == Categorize \/ \E category \in DeclaredCategories : ProcessChunk(category)
SpecCat == InitCat /\ [][NextCat]_vars

\* C9: extract_categories_with_ai returns a non-empty list whose labels are
\* taxonomy categories or exactly "uncategorized", whatever the classifier
\* yields.
C9_LabelsInTaxonomy ==
  (cat_pc = "done" /\ cat_response # NoResponse) =>
    /\ cat_result # <<>>
    /\ \A i \in DOMAIN cat_result :
         cat_result[i] \in categories_list \/ cat_result[i] = "uncategorized"

\* C25: process_chunk stores the document's declared category exactly when
\* extract_categories_with_ai yielded no taxonomy label for the chunk;
\* otherwise it stores exactly the AI-derived categories; the stored list is
\* never empty.
C25_DeclaredCategoryIffNoLabel ==
  cat_final # NoFinal =>
    LET has_label == \E i \in DOMAIN cat_result : cat_result[i] \in categories_list IN
    /\ cat_final.final_categories # <<>>
    /\ has_label => cat_final.final_categories = cat_result
    /\ ~has_label => cat_final.final_categories = <<cat_final.category>>

(***************************************************************************)
(* pydantic_agent: identify_relevant_categories,                           *)
(* retrieve_relevant_documentation, retrieve_documentation_by_category.    *)
(* The two similarity searches are remote procedures of the store; what    *)
(* they yield (a list of rows, or an exception) is an input of the call.   *)
(***************************************************************************)
Doc(url, category, marketplace) ==
  [url |-> url, title |-> url, category |-> category, marketplace |-> marketplace]

DocPool ==
  { Doc("d1", <<"Logística", "Amazon FBA y FBM">>, "amazon"),
    Doc("d2", <<"Marketing y Publicidad">>, "amazon"),
    Doc("d3", <<>>, "amazon"),
    Doc("d4", <<"Logística">>, "general") }

\* all lists of distinct elements of S
RECURSIVE Arrangements(_)
Arrangements(S) ==
  IF S = {} THEN {<<>>}
  ELSE {<<>>} \cup UNION {{<<x>> \o a : a \in Arrangements(S \ {x})} : x \in S}

\* any(cat in categories for cat in doc['category'])
SharesCategory(doc, categories) ==
  \E i \in DOMAIN doc.category : doc.category[i] \in Range(categories)

\* rpc('match_documents_by_category', categories, match_count): the answers
\* the store may give
match_documents_by_category(docs, categories, match_count) ==
  {a \in Arrangements({d \in docs : SharesCategory(d, categories)}) :
     Len(a) <= match_count}

\* rpc('match_site_pages', match_count, marketplace_filter)
match_site_pages(docs, match_count, marketplace_filter) ==
  {a \in Arrangements({d \in docs : d.marketplace = marketplace_filter}) :
     Len(a) <= match_count}

\* str.upper on the marketplace tags
upper(m) == CASE m = "amazon" -> "AMAZON" [] m = "general" -> "GENERAL" [] OTHER -> m

\* lines 183-200: one formatted block
format_chunk(doc) ==
  [title |-> doc.title, category_info |-> doc.category,
   marketplace_info |-> upper(doc.marketplace), source |-> doc.url]

format_chunks(data) == [i \in DOMAIN data |-> format_chunk(data[i])]

Context(data) == [kind |-> "context", chunks |-> format_chunks(data), named |-> <<>>]
NoResults(categories) == [kind |-> "no_results", chunks |-> <<>>, named |-> categories]
ErrorText == [kind |-> "error", chunks |-> <<>>, named |-> <<>>]

\* the labels of a query classifier answer in this model
QueryLabels == {"Logística", "Marketing y Publicidad", "Envíos", NonString}
QueryResponses ==
  {r \in Responses : r.key = "list" => Range(r.categories) \subseteq QueryLabels}
CategoryLists ==
  {l \in LabelLists : Range(l) \subseteq QueryLabels \ {NonString}}

\* lines 105-131: None ("null") or a list
identify_relevant_categories(response) ==
  IF response.kind = "raise"
    THEN [kind |-> "list", items |-> <<"Logística", "Amazon FBA y FBM">>]
  ELSE IF response.key = "missing" THEN [kind |-> "list", items |-> <<>>]
  ELSE IF response.key = "null" THEN [kind |-> "null", items |-> <<>>]
  ELSE [kind |-> "list", items |-> response.categories]

\* ', '.join(categories) raises TypeError
join_raises(categories) ==
  categories.kind = "null" \/ NonString \in Range(categories.items)

\* lines 178-203
relevant_result(categories, data) ==
  IF data = <<>>
  THEN IF join_raises(categories) THEN ErrorText ELSE NoResults(categories.items)
  ELSE Context(data)

\* the manual filter without the limit of 5 results
filtered_data_mut(data, specific_categories) ==
  SelectSeq(data, LAMBDA doc : doc.category # <<>>
                                 /\ SharesCategory(doc, specific_categories))

\* lines 252-260: the manual category filter of the fallback
filtered_data(data, specific_categories) ==
  LET kept == SelectSeq(data, LAMBDA doc : doc.category # <<>>
                                     /\ SharesCategory(doc, specific_categories))
  IN SubSeq(kept, 1, Min(5, Len(kept)))

\* lines 262-284
by_category_result(specific_categories, data) ==
  IF data = <<>> THEN NoResults(specific_categories) ELSE Context(data)

RetrInit ==
  /\ rt_docs \in SUBSET DocPool
  /\ rt_call = NoCall
  /\ rt_ret = NoReturn

Call(fn, categories, primary_raised, searched, rows) ==
  [fn |-> fn, categories |-> categories, primary_raised |-> primary_raised,
   searched |-> searched, search_rows |-> rows]

\* retrieve_relevant_documentation, match_documents_by_category answers
RetrieveRelevant ==
  /\ rt_call = NoCall
  /\ \E response \in QueryResponses :
    LET categories == identify_relevant_categories(response) IN
    \E data \in match_documents_by_category(rt_docs, categories.items, 5) :
      /\ rt_call' = Call("relevant", categories, FALSE, TRUE, data)
      /\ rt_ret' = relevant_result(categories, data)
      /\ UNCHANGED <<rt_docs, otherThanRetr>>

\* retrieve_relevant_documentation, match_documents_by_category raises and
\* match_site_pages answers (lines 165-176)
RetrieveRelevantFallback ==
  /\ rt_call = NoCall
  /\ \E response \in QueryResponses :
    LET categories == identify_relevant_categories(response) IN
    \E data \in match_site_pages(rt_docs, 5, "amazon") :
      /\ rt_call' = Call("relevant", categories, TRUE, TRUE, data)
      /\ rt_ret' = relevant_result(categories, data)
      /\ UNCHANGED <<rt_docs, otherThanRetr>>

\* retrieve_relevant_documentation, both searches raise (lines 205-207)
RetrieveRelevantRaises ==
  /\ rt_call = NoCall
  /\ \E response \in QueryResponses :
    /\ rt_call' = Call("relevant", identify_relevant_categories(response), TRUE, FALSE, <<>>)
    /\ rt_ret' = ErrorText
    /\ UNCHANGED <<rt_docs, otherThanRetr>>

\* retrieve_documentation_by_category, match_documents_by_category answers
RetrieveByCategory ==
  /\ rt_call = NoCall
  /\ \E specific_categories \in CategoryLists :
    \E data \in match_documents_by_category(rt_docs, specific_categories, 5) :
      /\ rt_call' = Call("by_category", [kind |-> "list", items |-> specific_categories],
                         FALSE, TRUE, data)
      /\ rt_ret' = by_category_result(specific_categories, data)
      /\ UNCHANGED <<rt_docs, otherThanRetr>>

\* retrieve_documentation_by_category, fallback with manual filter
RetrieveByCategoryFallback ==
  /\ rt_call = NoCall
  /\ \E specific_categories \in CategoryLists :
    \E data \in match_site_pages(rt_docs, 10, "amazon") :
      /\ rt_call' = Call("by_category", [kind |-> "list", items |-> specific_categories],
                         TRUE, TRUE, data)
      /\ rt_ret' = by_category_result(specific_categories,
                                      filtered_data(data, specific_categories))
      /\ UNCHANGED <<rt_docs, otherThanRetr>>

\* retrieve_documentation_by_category, both searches raise (lines 286-288)
RetrieveByCategoryRaises ==
  /\ rt_call = NoCall
  /\ \E specific_categories \in CategoryLists :
    /\ rt_call' = Call("by_category", [kind |-> "list", items |-> specific_categories],
                       TRUE, FALSE, <<>>)
    /\ rt_ret' = ErrorText
    /\ UNCHANGED <<rt_docs, otherThanRetr>>

InitRetr == ConvInit /\ ThreadInit /\ ChunkIdle /\ IngestInit /\ CatIdle /\ RetrInit /\ CtxIdle /\ IdentIdle /\ AnaIdle /\ MsgIdle /\ AskIdle
NextRetr ==
  \/ RetrieveRelevant
  \/ RetrieveRelevantFallback
  \/ RetrieveRelevantRaises
  \/ RetrieveByCategory
  \/ RetrieveByCategoryFallback
  \/ RetrieveByCategoryRaises
SpecRetr == InitRetr /\ [][NextRetr]_vars

\* ---- retrieve_documentation_by_category against a larger table ----------
\* six amazon rows: all of them share a category with <<"Logística",
\* "Marketing y Publicidad">>, two of them with <<"Marketing y Publicidad">>
CategoryDocPool ==
  { Doc("d1", <<"Logística", "Amazon FBA y FBM">>, "amazon"),
    Doc("d2", <<"Marketing y Publicidad">>, "amazon"),
    Doc("d5", <<"Logística">>, "amazon"),
    Doc("d6", <<"Logística", "Marketing y Publicidad">>, "amazon"),
    Doc("d7", <<"Amazon FBA y FBM", "Logística">>, "amazon"),
    Doc("d8", <<"Logística">>, "amazon") }

ByCategoryInit ==
  /\ rt_docs = CategoryDocPool
  /\ rt_call = NoCall
  /\ rt_ret = NoReturn

InitByCategory == ConvInit /\ ThreadInit /\ ChunkIdle /\ IngestInit /\ CatIdle /\ ByCategoryInit /\ CtxIdle /\ IdentIdle /\ AnaIdle /\ MsgIdle /\ AskIdle
NextByCategory ==
  \/ RetrieveByCategory
  \/ RetrieveByCategoryFallback
  \/ RetrieveByCategoryRaises
SpecByCategory == InitByCategory /\ [][NextByCategory]_vars

\* the positions of the rows match_site_pages returned that share a category
\* with the categories asked for
Qualifying ==
  {i \in DOMAIN rt_call.search_rows :
     \E j \in DOMAIN rt_call.search_rows[i].category :
       rt_call.search_rows[i].category[j] \in Range(rt_call.categories.items)}

\* C26: in retrieve_documentation_by_category, when
\* match_documents_by_category raises, the context is formatted from the
\* first (at most 5) rows of the match_site_pages answer that share a
\* category with specific_categories, in the order of the answer; when no
\* row qualifies the no-results message is returned.
C26_FallbackFirstFiveQualifying ==
  (rt_call.fn = "by_category" /\ rt_call.primary_raised /\ rt_call.searched) =>
    IF Qualifying = {}
    THEN rt_ret = NoResults(rt_call.categories.items)
    ELSE /\ rt_ret.kind = "context"
         /\ Len(rt_ret.chunks) = Min(5, Cardinality(Qualifying))
         /\ \A n \in DOMAIN rt_ret.chunks :
              \E i \in Qualifying :
                /\ Cardinality({j \in Qualifying : j < i}) = n - 1
                /\ rt_ret.chunks[n].source = rt_call.search_rows[i].url
                /\ rt_ret.chunks[n].category_info = rt_call.search_rows[i].category

\* C26 witness: the fallback answer held six rows that all qualify; the
\* first five were formatted and the sixth was left out.
C26_Witness ==
  /\ rt_call.fn = "by_category" /\ rt_call.primary_raised /\ rt_call.searched
  /\ Len(rt_call.search_rows) = 6
  /\ Qualifying = 1..6
  /\ rt_ret.kind = "context"
  /\ Len(rt_ret.chunks) = 5
  /\ rt_ret.chunks[5].source = rt_call.search_rows[5].url

\* C28: identify_relevant_categories returns a list of 1 to 3 labels, each
\* a category of the taxonomy, whatever the classifier answers and also
\* when the classifier call fails.
C28_OneToThreeTaxonomyLabels ==
  rt_call.fn = "relevant" =>
    /\ rt_call.categories.kind = "list"
    /\ Len(rt_call.categories.items) \in 1..3
    /\ Range(rt_call.categories.items) \subseteq categories_list

\* C7: when match_documents_by_category is unavailable, every chunk in the
\* context retrieve_relevant_documentation returns has a category among the
\* categories inferred for the query.
C7_FallbackFilteredByCategory ==
  (rt_call.fn = "relevant" /\ rt_call.primary_raised /\ rt_ret.kind = "context") =>
    \A i \in DOMAIN rt_ret.chunks :
      \E j \in DOMAIN rt_ret.chunks[i].category_info :
        rt_ret.chunks[i].category_info[j] \in Range(rt_call.categories.items)

\* C8: when the similarity search returns no rows, both retrieval tools
\* return the no-results message naming every searched category.
C8_NoResultsMessage ==
  (rt_call.fn \in {"relevant", "by_category"} /\ rt_call.searched
     /\ rt_call.search_rows = <<>>) =>
    /\ rt_ret.kind = "no_results"
    /\ rt_call.categories.kind = "list"
    /\ rt_ret.named = rt_call.categories.items

(***************************************************************************)
(* POST /ask of the crawl4AI agent (crawl4AI-agent/rg_crawlAI_agent/api.py) *)
(***************************************************************************)
MaxAskRows == 2

SubscriptionStatuses == {"active", "canceled"}
NotActivatedText == "Lo siento, tu cuenta no está activada. Por favor activa tu cuenta primero."
NoSubscriptionText == "Tu suscripción no está activa. Por favor renueva tu suscripción."
\* the gate without the test of is_activated
ask_gate_mut(users, store, tid) ==
  IF tid \notin DOMAIN users THEN "not_activated"
  ELSE IF store.subscriptions[users[tid]] # "active" THEN "no_subscription"
  ELSE "run"

\* lines 35-54: the telegram_users row of the sender must exist and be
\* activated, and subscriptions must hold a row of its auth_user_id with
\* status "active"
ask_gate(users, store, tid) ==
  IF tid \notin DOMAIN users \/ ~store.is_activated[tid] THEN "not_activated"
  ELSE IF store.subscriptions[users[tid]] # "active" THEN "no_subscription"
  ELSE "run"

\* lines 101-110: the row handed to insert(), with the id the store gives
\* it.  The dict has no key message_sequence and no key metadata; the
\* metrics columns sources, total_tokens and execution_time are left out.
AskRow(id, uid, sid, q, a) ==
  [id |-> id, user_id |-> uid, session_id |-> sid, question |-> q, answer |-> a,
   marketplace |-> "general"]

\* the requests whose agent run is awaited (line 63)
AwaitingAgent == {p \in AskRequests : ask_run[p].pc = "agent"}

\* lines 23-63: a request arrives.  The two selects are calls without an
\* await; fail names the one that raises ("lookup", "subscription") or is
\* "none".  The request is answered at line 42, 54 or 116, or the agent is
\* started and the handler is suspended at the await of line 63.  The
\* queries are told apart by a number: the next one that no row and no
\* request in flight carries.
AskGate(p, tid, sid, fail) ==
  LET gate == ask_gate(telegram_users, ask_store, tid)
      q == Text("q", Len(user_conversations) + Cardinality(AwaitingAgent) + 1)
      answered(g, text) == [telegram_id |-> tid, gate |-> g, agent_run |-> FALSE,
                            inserted |-> FALSE, response |-> text]
      apology == failure_answer("ask", "error").response
  IN /\ ask_run[p].pc = "idle"
     /\ \A o \in AskRequests : o < p => ask_run[o].pc # "idle"
     /\ Len(user_conversations) + Cardinality(AwaitingAgent) < MaxAskRows
     /\ IF fail = "lookup" THEN
          /\ ask_last' = answered(None, apology)
          /\ ask_run' = ask_run
        ELSE IF gate = "not_activated" THEN
          /\ ask_last' = answered(gate, <<NotActivatedText>>)
          /\ ask_run' = ask_run
        ELSE IF fail = "subscription" THEN
          /\ ask_last' = answered(None, apology)
          /\ ask_run' = ask_run
        ELSE IF gate = "no_subscription" THEN
          /\ ask_last' = answered(gate, <<NoSubscriptionText>>)
          /\ ask_run' = ask_run
        ELSE
          /\ ask_run' = [ask_run EXCEPT ![p] =
                           [pc |-> "agent", telegram_id |-> tid, session_id |-> sid,
                            auth_user_id |-> telegram_users[tid], query |-> q]]
          /\ ask_last' = ask_last
     /\ UNCHANGED <<convVars, ask_store, otherThanConvAsk>>

\* lines 63-116: the agent run of request p is over.  fail names the call
\* that raises ("agent", "insert") or is "none"; with no failure the row is
\* inserted and the answer of the agent is returned.
AskAnswer(p, fail) ==
  LET run == ask_run[p]
      n == Len(user_conversations) + 1
      response == Text("a", n)
  IN /\ run.pc = "agent"
     /\ ask_run' = [ask_run EXCEPT ![p] = NoAskRun]
     /\ IF fail = "none"
        THEN /\ user_conversations' =
                  Append(user_conversations,
                         AskRow(n, run.auth_user_id, run.session_id, run.query, response))
             /\ ask_last' = [telegram_id |-> run.telegram_id, gate |-> "run",
                             agent_run |-> TRUE, inserted |-> TRUE,
                             response |-> response]
        ELSE /\ user_conversations' = user_conversations
             /\ ask_last' = [telegram_id |-> run.telegram_id, gate |-> "run",
                             agent_run |-> TRUE, inserted |-> FALSE,
                             response |-> failure_answer("ask", "error").response]
     /\ UNCHANGED <<telegram_users, user_id_cache, save_result, save_call, ask_store, otherThanConvAsk>>

\* the tables the handler reads: is_activated of every telegram_users row
\* and, for every auth user, the status of its subscription row or None
\* when it has none
AskStores ==
  [is_activated : [DOMAIN InitialUsers -> BOOLEAN],
   subscriptions : [AuthUsers -> SubscriptionStatuses \cup {None}]]

\* no code of the repository writes is_activated or subscriptions: an
\* account is activated, deactivated, subscribed or cancelled from outside,
\* one write at a time, also while requests are in flight
AccountChanges ==
  /\ \/ \E tid \in DOMAIN ask_store.is_activated :
          ask_store' = [ask_store EXCEPT !.is_activated[tid] = ~ask_store.is_activated[tid]]
     \/ \E uid \in AuthUsers, status \in SubscriptionStatuses \cup {None} :
          /\ status # ask_store.subscriptions[uid]
          /\ ask_store' = [ask_store EXCEPT !.subscriptions[uid] = status]
  /\ UNCHANGED <<convVars, ask_last, ask_run, otherThanConvAsk>>

InitAsk == ConvInit /\ ThreadInit /\ ChunkIdle /\ IngestInit /\ CatIdle /\ RetrIdle /\ CtxIdle /\ IdentIdle /\ AnaIdle /\ MsgIdle /\ ask_store \in AskStores /\ ask_last = NoAsk /\ ask_run = [p \in AskRequests |-> NoAskRun]

NextAsk ==
  \/ \E p \in AskRequests, tid \in TelegramIds, sid \in SessionIds,
        fail \in {"none", "lookup", "subscription"} : AskGate(p, tid, sid, fail)
  \/ \E p \in AskRequests, fail \in {"none", "agent", "insert"} : AskAnswer(p, fail)
  \/ AccountChanges

SpecAsk == InitAsk /\ [][NextAsk]_vars

\* the sender has a telegram_users row that is activated and a subscription
\* with status active
Eligible(tid) ==
  /\ tid \in DOMAIN telegram_users
  /\ ask_store.is_activated[tid]
  /\ ask_store.subscriptions[telegram_users[tid]] = "active"

\* C30: POST /ask runs the agent and inserts a conversation row only for a
\* telegram_id whose telegram_users row exists, is activated and has a
\* subscription with status active when the request is checked; for every
\* other request neither happens.  The agent is started only in a step in
\* which the sender is eligible, a row is inserted only by a request whose
\* agent was started, and it carries the auth_user_id of its sender.
C30_AskOnlyForActiveSubscribers ==
  [][/\ \A p \in AskRequests :
          (ask_run[p].pc = "idle" /\ ask_run'[p].pc = "agent")
            => Eligible(ask_run'[p].telegram_id)
     /\ user_conversations' # user_conversations =>
          \E p \in AwaitingAgent :
            /\ ask_run'[p].pc = "idle"
            /\ user_conversations' =
                 Append(user_conversations, user_conversations'[Len(user_conversations')])
            /\ user_conversations'[Len(user_conversations')].user_id
                 = telegram_users[ask_run[p].telegram_id]
     /\ (ask_run' = ask_run /\ ask_last' # ask_last) =>
          /\ ~ask_last'.agent_run
          /\ ~ask_last'.inserted]_vars

\* C30 witness: a request of sender 1 was answered by the agent and its row
\* inserted; the last request, of sender 2, who is activated and whose
\* subscription is canceled, was answered without an agent run.
C30_Witness ==
  /\ Len(user_conversations) = 1
  /\ user_conversations[1].user_id = "u1"
  /\ ask_last.telegram_id = 2
  /\ ask_store.is_activated[2]
  /\ ask_store.subscriptions["u2"] = "canceled"
  /\ ask_last.response = <<NoSubscriptionText>>
  /\ ~ask_last.agent_run

\* C24: every row of user_conversations written by a request handler
\* carries a message_sequence that is at least 1.
C24_EveryRowHasSequence ==
  \A i \in DOMAIN user_conversations :
    /\ "message_sequence" \in DOMAIN user_conversations[i]
    /\ user_conversations[i].message_sequence >= 1


====
